---- MODULE Spec2Model ----
(***************************************************************************)
(* Tauron backend: the explainability-to-alert pipeline.                   *)
(*                                                                         *)
(*   xai_bridge.py   extract_top_edge, extract_top_feature, build_xai_json *)
(*   llm_engine.py   generate_alert and its template fallback              *)
(*   mock_data.py    the generated herd served by GET /herd                *)
(*                                                                         *)
(* Numbers.  Every float of the program (weights, importances, deltas,     *)
(* risk scores) is a fixed-point integer counting units of 0.00001, so     *)
(* 0.9 is 90000 and round(x, 4) has digits to drop.                        *)
(* Text.  A Python str is a sequence of string tokens; whitespace is the   *)
(* tokens " " and "\n", and "_" is a token of its own in a feature name.   *)
(* Lists.  A Python list is a sequence; Python indices are 0-based and are *)
(* converted where the list is read.                                       *)
(***************************************************************************)
EXTENDS Integers, Sequences, FiniteSets, TLC

VARIABLES
    \* ---- extract_top_edge: arguments, and what the call produced
    edge_index, edge_mask, cow_ids, target_cow_id, edge_out,
    \* ---- extract_top_feature: arguments, and what the call produced
    feature_mask, feature_delta, feature_out,
    \* ---- generate_alert: the Structured Explanation given, the prompt
    \* posted, what the backend did, what the call produced, the number of
    \* POSTs issued and the log lines written
    xai_json, prompt, backend, alert_out, calls, log,
    \* ---- build_xai_json: arguments (with cow_ids above), and what the
    \* call produced
    cow_id, risk_score, explainer_output, xai_out,
    \* ---- the mock herd: USE_MOCK, the cow the run follows through
    \* _build_mock, its record, and what GET /herd answered for it
    USE_MOCK, cid, cow, herd_response,
    \* ---- explanation requests: the requests in flight (each with its own
    \* position), whether the ML team's bodies have replaced the stubs of
    \* graph_utils.py, what run_inference returns, MOCK_EXPLAIN, and the
    \* order in which the event loop has run the requests' steps so far
    reqs, ml_ready, inference, MOCK_EXPLAIN, schedule,
    \* ---- ingestion: the record store, what the last request to
    \* /api/ingest answered, and the number of records that successful
    \* POSTs have appended so far, and the POSTs in flight (each with its
    \* own position)
    _records, ingest_response, appended, posts,
    \* ---- where the run stands: "start", "awaiting" (suspended at the
    \* awaited POST), "done"
    pc

edgeVars == <<edge_index, edge_mask, cow_ids, target_cow_id, edge_out>>
featVars == <<feature_mask, feature_delta, feature_out>>
alertVars == <<xai_json, prompt, backend, alert_out, calls, log>>
xaiVars == <<cow_id, risk_score, explainer_output, xai_out>>
herdVars == <<USE_MOCK, cid, cow, herd_response>>
explainVars == <<reqs, ml_ready, inference, MOCK_EXPLAIN, schedule>>
ingestVars == <<_records, ingest_response, appended, posts>>

(***************************************************************************)
(* Bounds of the model.                                                    *)
(***************************************************************************)
\* longest edge list drawn
MaxEdges == 2
\* how far a drawn feature mask may exceed the canonical name list
MaxExtra == 1
\* most records the store is followed to
MaxStore == 4

(***************************************************************************)
(* Python values and helpers.                                              *)
(***************************************************************************)
\* the absent optional argument
None == [isNone |-> TRUE, list |-> <<>>]
Some(l) == [isNone |-> FALSE, list |-> l]

\* outcome of a call: a returned value, or the exception that left it
Return(v) == [exc |-> "none", value |-> v]
Raise(e, v) == [exc |-> e, value |-> v]

\* a rounding that always moves to the next multiple of 0.0001 above
round4_next(x) == ((x \div 10) + 1) * 10

\* round(x, 4): x counts 0.00001s; the result is a multiple of 10 units.
\* A float lies exactly half way between two 4-place values only when it is
\* an odd multiple of 1/32 = 0.03125, and Python rounds those to the even
\* fourth digit; every other float ending in a fifth digit 5 is stored just
\* above or just below the tie, so the inputs drawn avoid them.
round4(x) ==
    LET q == x \div 10
        r == x % 10
    IN  IF r < 5 THEN q * 10
        ELSE IF r > 5 THEN (q + 1) * 10
        ELSE IF q % 2 = 0 THEN q * 10 ELSE (q + 1) * 10

\* list[i] for a Python index i: negative indices count from the end
InRange(list, i) == i < Len(list) /\ i >= 0 - Len(list)
At(list, i) == IF i >= 0 THEN list[i + 1] ELSE list[Len(list) + i + 1]

\* list.index(x): the first 0-based position of x
IndexOf(list, x) ==
    (CHOOSE k \in 1..Len(list) :
        list[k] = x /\ \A j \in 1..(k - 1) : list[j] # x) - 1

\* x in list
Contains(list, x) == \E k \in 1..Len(list) : list[k] = x

\* zip(a, b) stops at the shorter list
ZipLen(a, b) == IF Len(a) <= Len(b) THEN Len(a) ELSE Len(b)

(***************************************************************************)
(* xai_bridge.py                                                           *)
(***************************************************************************)
FEATURE_NAMES == <<
    <<"milk", "_", "yield">>,
    <<"milk", "_", "yield", "_", "drop">>,
    <<"vet", "_", "event", "_", "flag">>,
    <<"pen", "_", "assignment">>,
    <<"feeding", "_", "station">>,
    <<"rumination", "_", "minutes">>,
    <<"activity", "_", "index">>,
    <<"brd", "_", "cough", "_", "frequency">>,
    <<"lameness", "_", "score">>,
    <<"proximity", "_", "to", "_", "alert">> >>

\* the self-loop returned when there is nothing to report
SelfLoop(t) == [from |-> t, to |-> t, weight |-> 0]

\* the same with the incidence filter left out: every zipped edge is kept
IncidentUnfiltered(ei, em, target_idx) ==
    [k \in 1..ZipLen(ei, em) |-> <<k - 1, em[k]>>]

\* the (i, float(mask_val)) pairs of the edges that touch target_idx,
\* in input order; i is the 0-based position of the edge
Incident(ei, em, target_idx) ==
    LET Touches(k) == At(ei[k], 0) = target_idx \/ At(ei[k], 1) = target_idx
        all == [k \in 1..ZipLen(ei, em) |-> <<k - 1, em[k]>>]
        Keep(p) == Touches(p[1] + 1)
    IN  SelectSeq(all, Keep)

\* the same keeping the last pair of greatest weight (a >= scan)
MaxByWeightLast(incident) ==
    incident[CHOOSE k \in 1..Len(incident) :
        /\ \A j \in 1..Len(incident) : incident[j][2] <= incident[k][2]
        /\ \A j \in (k + 1)..Len(incident) : incident[j][2] < incident[k][2]]

\* max(incident, key=lambda x: x[1]): the first pair of greatest weight
MaxByWeight(incident) ==
    incident[CHOOSE k \in 1..Len(incident) :
        /\ \A j \in 1..Len(incident) : incident[j][2] <= incident[k][2]
        /\ \A j \in 1..(k - 1) : incident[j][2] < incident[k][2]]

\* neighbor_idx = dst_idx if src_idx == target_idx else src_idx
NeighborIdx(edge, target_idx) ==
    IF At(edge, 0) = target_idx THEN At(edge, 1) ELSE At(edge, 0)

\* lines 64-87: the target is in the mapping
top_edge_of_known(ei, em, ids, target) ==
    LET target_idx == IndexOf(ids, target)
        incident == Incident(ei, em, target_idx)
    IN  IF Len(incident) = 0 THEN Return(SelfLoop(target))
        ELSE
        LET best == MaxByWeight(incident)
            neighbor_idx == NeighborIdx(At(ei, best[1]), target_idx)
        IN  IF ~InRange(ids, neighbor_idx)
            THEN Raise("IndexError", SelfLoop(target))
            ELSE Return([from |-> target,
                         to |-> At(ids, neighbor_idx),
                         weight |-> round4(best[2])])

\* the same without the membership guard: cow_ids.index raises ValueError
extract_top_edge_unguarded(ei, em, ids, target) ==
    IF ~Contains(ids, target) THEN Raise("ValueError", SelfLoop(target))
    ELSE top_edge_of_known(ei, em, ids, target)

extract_top_edge(ei, em, ids, target) ==
    IF ~Contains(ids, target) THEN Return(SelfLoop(target))
    ELSE top_edge_of_known(ei, em, ids, target)

\* the same scan keeping the last index of greatest importance
ArgMaxLast(mask) ==
    (CHOOSE k \in 1..Len(mask) :
        /\ \A j \in 1..Len(mask) : mask[j] <= mask[k]
        /\ \A j \in (k + 1)..Len(mask) : mask[j] < mask[k]) - 1

\* max(range(len(feature_mask)), key=lambda i: feature_mask[i]):
\* the first 0-based index of greatest importance
ArgMaxFirst(mask) ==
    (CHOOSE k \in 1..Len(mask) :
        /\ \A j \in 1..Len(mask) : mask[j] <= mask[k]
        /\ \A j \in 1..(k - 1) : mask[j] < mask[k]) - 1

\* truth value of the optional list: None and [] are both false
Truthy(opt) == ~opt.isNone /\ Len(opt.list) > 0

\* lines 109-113: the mask is non-empty and fits the name list
top_feature_of_mask(mask, delta) ==
    LET top_idx == ArgMaxFirst(mask)
        top_name == At(FEATURE_NAMES, top_idx)
        d == IF Truthy(delta) /\ Len(delta.list) > top_idx
             THEN At(delta.list, top_idx) ELSE 0
    IN  Return([name |-> top_name, delta |-> round4(d)])

DefaultFeature == [name |-> At(FEATURE_NAMES, 0), delta |-> 0]

\* the same guarding only the length: max() of an empty range raises ValueError
extract_top_feature_no_empty_guard(mask, delta) ==
    IF Len(mask) > Len(FEATURE_NAMES) THEN Return(DefaultFeature)
    ELSE IF Len(mask) = 0 THEN Raise("ValueError", DefaultFeature)
    ELSE top_feature_of_mask(mask, delta)

extract_top_feature(mask, delta) ==
    IF Len(mask) = 0 \/ Len(mask) > Len(FEATURE_NAMES)
    THEN Return(DefaultFeature)
    ELSE top_feature_of_mask(mask, delta)

\* explainer_output.get(key): None when the key is absent
Get(d, key) == IF key \in DOMAIN d THEN Some(d[key]) ELSE None

NoXai == [cow_id |-> 0, risk_score |-> 0, top_edge |-> SelfLoop(0),
          top_feature |-> <<>>, feature_delta |-> 0]

\* the same with the risk score passed through as given
build_xai_json_raw_risk(id, risk, eo, ids) ==
    LET top_edge == extract_top_edge(eo.edge_index, eo.edge_mask, ids, id)
        top == extract_top_feature(eo.feature_mask, Get(eo, "feature_delta"))
    IN  IF top_edge.exc # "none" THEN Raise(top_edge.exc, NoXai)
        ELSE IF top.exc # "none" THEN Raise(top.exc, NoXai)
        ELSE Return([cow_id |-> id,
                     risk_score |-> risk,
                     top_edge |-> top_edge.value,
                     top_feature |-> top.value.name,
                     feature_delta |-> top.value.delta])

build_xai_json(id, risk, eo, ids) ==
    LET top_edge == extract_top_edge(eo.edge_index, eo.edge_mask, ids, id)
        top == extract_top_feature(eo.feature_mask, Get(eo, "feature_delta"))
    IN  IF top_edge.exc # "none" THEN Raise(top_edge.exc, NoXai)
        ELSE IF top.exc # "none" THEN Raise(top.exc, NoXai)
        ELSE Return([cow_id |-> id,
                     risk_score |-> round4(risk),
                     top_edge |-> top_edge.value,
                     top_feature |-> top.value.name,
                     feature_delta |-> top.value.delta])

(***************************************************************************)
(* graph_utils.py: the documented status thresholds of run_inference (the  *)
(* function itself is a stub that raises NotImplementedError).             *)
(***************************************************************************)
risk_status(score) ==
    IF score > 70000 THEN "alert"
    ELSE IF score >= 40000 THEN "watch"
    ELSE "ok"

(***************************************************************************)
(* mock_data.py: _build_mock, followed for one cow of the herd.  The       *)
(* seeded generator is a choice among the values its calls can return.     *)
(***************************************************************************)
FEATURES == {"milk_yield_kg", "ear_temp_c", "rumination_min", "activity",
             "feeding_visits", "feeding_min", "days_in_milk"}
DISEASES == {"mastitis", "brd", "lameness"}
COW_IDS == 1..60
alert_ids == {7, 15, 23, 38, 47, 52}
watch_ids == {4, 9, 12, 22, 31, 33, 42, 51, 58}

Null == [isNone |-> TRUE, v |-> ""]
Val(x) == [isNone |-> FALSE, v |-> x]

\* round(rng.uniform(lo, hi), 2): every hundredth from lo to hi
Hundredths(lo, hi) == {1000 * k : k \in (lo \div 1000)..(hi \div 1000)}

\* the same draw for alert cows starting at the 0.70 boundary
AlertRisksFromBoundary == Hundredths(70000, 93000)

AlertRisks == Hundredths(72000, 93000)
WatchRisks == Hundredths(41000, 69000)
OkRisks == Hundredths(3000, 34000)
\* the other diseases' scores: the two ends of each uniform range
AlertOthers == {8000, 35000}
WatchOthers == {6000, 30000}

\* the same with a top feature drawn for the ok cows as well
MockCowsAllWithFeature(c) ==
    IF c \in alert_ids THEN
        {[id |-> c, risk_score |-> risk, status |-> "alert",
          top_feature |-> Val(f), dominant_disease |-> Val(disease),
          all_risks |-> Val([d \in DISEASES |-> IF d = disease THEN risk ELSE other[d]])] :
            risk \in AlertRisks, disease \in DISEASES, f \in FEATURES,
            other \in [DISEASES -> AlertOthers]}
    ELSE IF c \in watch_ids THEN
        {[id |-> c, risk_score |-> risk, status |-> "watch",
          top_feature |-> Val(f), dominant_disease |-> Val(disease),
          all_risks |-> Val([d \in DISEASES |-> IF d = disease THEN risk ELSE other[d]])] :
            risk \in WatchRisks, disease \in DISEASES, f \in FEATURES,
            other \in [DISEASES -> WatchOthers]}
    ELSE
        {[id |-> c, risk_score |-> risk, status |-> "ok",
          top_feature |-> Val(f), dominant_disease |-> Null, all_risks |-> Null] :
            risk \in OkRisks, f \in FEATURES}

\* lines 39-66: the record appended for cow c
MockCows(c) ==
    IF c \in alert_ids THEN
        {[id |-> c, risk_score |-> risk, status |-> "alert",
          top_feature |-> Val(f), dominant_disease |-> Val(disease),
          all_risks |-> Val([d \in DISEASES |-> IF d = disease THEN risk ELSE other[d]])] :
            risk \in AlertRisks, disease \in DISEASES, f \in FEATURES,
            other \in [DISEASES -> AlertOthers]}
    ELSE IF c \in watch_ids THEN
        {[id |-> c, risk_score |-> risk, status |-> "watch",
          top_feature |-> Val(f), dominant_disease |-> Val(disease),
          all_risks |-> Val([d \in DISEASES |-> IF d = disease THEN risk ELSE other[d]])] :
            risk \in WatchRisks, disease \in DISEASES, f \in FEATURES,
            other \in [DISEASES -> WatchOthers]}
    ELSE
        {[id |-> c, risk_score |-> risk, status |-> "ok",
          top_feature |-> Null, dominant_disease |-> Null, all_risks |-> Null] :
            risk \in OkRisks}

Risks(m, b, l) == [d \in DISEASES |->
    IF d = "mastitis" THEN m ELSE IF d = "brd" THEN b ELSE l]

\* lines 69-85
overrides ==
    [c \in {47, 15, 31, 22, 9} |->
        CASE c = 47 -> [risk_score |-> 85000, status |-> "alert",
                        top_feature |-> Val("milk_yield_kg"),
                        dominant_disease |-> Val("mastitis"),
                        all_risks |-> Val(Risks(85000, 31000, 12000))]
          [] c = 15 -> [risk_score |-> 74000, status |-> "alert",
                        top_feature |-> Val("activity"),
                        dominant_disease |-> Val("lameness"),
                        all_risks |-> Val(Risks(18000, 29000, 74000))]
          [] c = 31 -> [risk_score |-> 62000, status |-> "watch",
                        top_feature |-> Val("ear_temp_c"),
                        dominant_disease |-> Val("brd"),
                        all_risks |-> Val(Risks(41000, 62000, 8000))]
          [] c = 22 -> [risk_score |-> 55000, status |-> "watch",
                        top_feature |-> Val("rumination_min"),
                        dominant_disease |-> Val("brd"),
                        all_risks |-> Val(Risks(22000, 55000, 19000))]
          [] c = 9 ->  [risk_score |-> 41000, status |-> "watch",
                        top_feature |-> Val("rumination_min"),
                        dominant_disease |-> Val("mastitis"),
                        all_risks |-> Val(Risks(41000, 28000, 14000))]]

\* lines 86-88: cow.update(_overrides[cow["id"]])
Overridden(rec) ==
    IF rec.id \in DOMAIN overrides
    THEN [k \in DOMAIN rec |->
            IF k \in DOMAIN overrides[rec.id] THEN overrides[rec.id][k] ELSE rec[k]]
    ELSE rec

(***************************************************************************)
(* llm_engine.py                                                           *)
(***************************************************************************)
Digit == <<"0", "1", "2", "3", "4", "5", "6", "7", "8", "9">>

\* str(n) of a non-negative int, one token per decimal digit
RECURSIVE NatStr(_)
NatStr(n) == IF n < 10 THEN <<Digit[n + 1]>>
             ELSE NatStr(n \div 10) \o <<Digit[(n % 10) + 1]>>

\* f"{n}" of an int
IntStr(n) == IF n < 0 THEN <<"-">> \o NatStr(0 - n) ELSE NatStr(n)

\* x * 100 rounded to no decimals (x counts 0.00001s), ties to even
RoundPercent(x) ==
    LET q == x \div 1000
        r == x % 1000
    IN  IF r < 500 THEN q
        ELSE IF r > 500 THEN q + 1
        ELSE IF q % 2 = 0 THEN q ELSE q + 1

Abs(x) == IF x < 0 THEN 0 - x ELSE x

\* f"{x:.0%}": a minus sign for a negative x, also one that rounds to 0
Percent(x) == (IF x < 0 THEN <<"-">> ELSE <<>>) \o NatStr(RoundPercent(Abs(x))) \o <<"%">>

\* f"{x:+.0%}": the sign is always written
SignedPercent(x) ==
    (IF x < 0 THEN <<"-">> ELSE <<"+">>) \o NatStr(RoundPercent(Abs(x))) \o <<"%">>

\* s.replace("_", " ")
Humanize(name) == [k \in 1..Len(name) |-> IF name[k] = "_" THEN " " ELSE name[k]]

IsSpace(tok) == tok \in {" ", "\n", "\t"}

\* s.strip(): leading and trailing whitespace removed
RECURSIVE LStrip(_)
LStrip(t) == IF Len(t) > 0 /\ IsSpace(Head(t)) THEN LStrip(Tail(t)) ELSE t
RECURSIVE RStrip(_)
RStrip(t) == IF Len(t) > 0 /\ IsSpace(t[Len(t)])
             THEN RStrip(SubSeq(t, 1, Len(t) - 1)) ELSE t
Strip(t) == RStrip(LStrip(t))

build_user_prompt(xai) ==
    LET delta == xai.feature_delta
        delta_str == IF delta # 0 THEN SignedPercent(delta) ELSE <<"baseline">>
    IN  <<"Cow ID: #">> \o IntStr(xai.cow_id) \o <<"\n">>
        \o <<"Risk score: ">> \o Percent(xai.risk_score) \o <<"\n">>
        \o <<"Top risk factor: ">> \o Humanize(xai.top_feature)
        \o <<" (change from baseline: ">> \o delta_str \o <<")", "\n">>
        \o <<"Highest-risk contact: #">> \o IntStr(xai.top_edge.from)
        \o <<" shared space with #">> \o IntStr(xai.top_edge.to) \o <<" ">>
        \o <<"(connection strength: ">> \o Percent(xai.top_edge.weight) \o <<")", "\n">>
        \o <<"Generate a one-sentence farmer alert.">>

\* the same template naming the edge's source instead of its neighbor
fallback_alert_from(xai) ==
    <<"Check #">> \o IntStr(xai.cow_id) \o <<": ">> \o Humanize(xai.top_feature)
    \o <<" detected, shared space with #">> \o IntStr(xai.top_edge.from)
    \o <<".", " ", "Inspect immediately.">>

fallback_alert(xai) ==
    <<"Check #">> \o IntStr(xai.cow_id) \o <<": ">> \o Humanize(xai.top_feature)
    \o <<" detected, shared space with #">> \o IntStr(xai.top_edge.to)
    \o <<".", " ", "Inspect immediately.">>

\* what the awaited POST can do: raise, or answer with a status and a body.
\* A body is invalid JSON, a JSON list, or a JSON object with some keys whose
\* "response" value is a string, null or a number.
Is2xx(status) == status >= 200 /\ status < 300

\* the exception, if any, that lines 109-124 raise on this backend outcome
ExceptionOf(b) ==
    IF b.kind # "response" THEN b.kind
    ELSE IF ~Is2xx(b.status) THEN "HTTPStatusError"
    ELSE IF b.body.shape = "invalid" THEN "JSONDecodeError"
    ELSE IF b.body.shape = "list" THEN "TypeError"
    ELSE IF "response" \notin b.body.keys THEN "KeyError"
    ELSE IF b.body.response.type # "str" THEN "AttributeError"
    ELSE "none"

\* the same with the exception's class written into the text returned
\* after an unexpected failure
finish_alert_naming_failure(xai, b) ==
    LET e == ExceptionOf(b)
    IN  IF e = "none"
        THEN [out |-> Return(Strip(b.body.response.text)),
              line |-> [level |-> "info", what |-> "none"]]
        ELSE IF e \in {"ConnectError", "TimeoutException"}
        THEN [out |-> Return(fallback_alert(xai)),
              line |-> [level |-> "warning", what |-> e]]
        ELSE [out |-> Return(fallback_alert(xai) \o <<" (", e, ")">>),
              line |-> [level |-> "error", what |-> e]]

\* lines 122-137: the value returned and the log line written once the
\* POST has been answered or has raised
finish_alert(xai, b) ==
    LET e == ExceptionOf(b)
    IN  IF e = "none"
        THEN [out |-> Return(Strip(b.body.response.text)),
              line |-> [level |-> "info", what |-> "none"]]
        ELSE IF e \in {"ConnectError", "TimeoutException"}
        THEN [out |-> Return(fallback_alert(xai)),
              line |-> [level |-> "warning", what |-> e]]
        ELSE [out |-> Return(fallback_alert(xai)),
              line |-> [level |-> "error", what |-> e]]

(***************************************************************************)
(* mock_data.py: MOCK_EXPLAIN.  The five hand-crafted explanations, and    *)
(* _build_explain for every other cow of the herd.  The em dash of the     *)
(* texts is written "--".                                                  *)
(***************************************************************************)
Edge(f, t, w) == [from |-> f, to |-> t, weight |-> w]

\* lines 119-175
HAND_EXPLAIN ==
    [c \in {47, 15, 31, 22, 9} |->
        CASE c = 47 ->
               [cow_id |-> 47, risk_score |-> 85000, top_edge |-> Edge(47, 31, 91000),
                top_feature |-> "milk_yield_kg", feature_delta |-> -18000,
                dominant_disease |-> Val("mastitis"),
                all_risks |-> Risks(85000, 31000, 12000),
                alert_text |-> <<"Isolate #47: milk yield dropped 18%, mastitis risk at 85% -- ",
                                 "shared pen with #31. Check udder and take temperature now.">>]
          [] c = 15 ->
               [cow_id |-> 15, risk_score |-> 74000, top_edge |-> Edge(15, 22, 82000),
                top_feature |-> "activity", feature_delta |-> -25000,
                dominant_disease |-> Val("lameness"),
                all_risks |-> Risks(18000, 29000, 74000),
                alert_text |-> <<"Isolate #15: activity dropped 25%, lameness risk at 74% -- ",
                                 "shared feed station with #22. Call vet for hoof inspection today.">>]
          [] c = 31 ->
               [cow_id |-> 31, risk_score |-> 62000, top_edge |-> Edge(31, 47, 91000),
                top_feature |-> "ear_temp_c", feature_delta |-> 8000,
                dominant_disease |-> Val("brd"),
                all_risks |-> Risks(41000, 62000, 8000),
                alert_text |-> <<"Monitor #31: ear temperature up, BRD risk at 62% -- ",
                                 "shared space with high-risk #47. Recheck breathing at next milking.">>]
          [] c = 22 ->
               [cow_id |-> 22, risk_score |-> 55000, top_edge |-> Edge(22, 47, 76000),
                top_feature |-> "rumination_min", feature_delta |-> -12000,
                dominant_disease |-> Val("brd"),
                all_risks |-> Risks(22000, 55000, 19000),
                alert_text |-> <<"Watch #22: rumination time down 12%, BRD risk at 55% -- ",
                                 "contact with #47. Separate from herd and monitor breathing.">>]
          [] c = 9 ->
               [cow_id |-> 9, risk_score |-> 41000, top_edge |-> Edge(9, 22, 64000),
                top_feature |-> "rumination_min", feature_delta |-> -9000,
                dominant_disease |-> Val("mastitis"),
                all_risks |-> Risks(41000, 28000, 14000),
                alert_text |-> <<"Watch #9: rumination time down 9%, mastitis risk at 41% -- ",
                                 "near #22. Check feed intake and milk yield at next milking.">>]]

\* lines 183-184
EXPLAIN_FEATURES == {"milk_yield_kg", "ear_temp_c", "rumination_min", "activity",
                     "feeding_visits", "feeding_min"}
\* lines 185-189: FEATURE_NAMES.get(feat, feat)
MOCK_FEATURE_NAME(feat) ==
    CASE feat = "milk_yield_kg" -> "milk yield"
      [] feat = "ear_temp_c" -> "ear temperature"
      [] feat = "rumination_min" -> "rumination time"
      [] feat = "activity" -> "activity"
      [] feat = "feeding_visits" -> "feeding visits"
      [] feat = "feeding_min" -> "feeding time"
      [] OTHER -> feat
\* lines 191-195: ACTIONS.get(disease, default)
ACTIONS_get(disease, default) ==
    IF disease.isNone THEN default
    ELSE CASE disease.v = "mastitis" -> "Check udder and take temperature at next milking."
           [] disease.v = "brd" -> "Monitor breathing and check nasal discharge."
           [] disease.v = "lameness" -> "Inspect hooves and observe gait."
           [] OTHER -> default

\* f"{disease}" of a nullable string
DiseaseStr(disease) == IF disease.isNone THEN "None" ELSE disease.v

\* lines 225-241: the text, by status.  int(x * 100) drops the fraction.
mock_alert_text(rec, feat, delta, neighbour) ==
    LET pct == Abs(delta) \div 1000
    IN  IF rec.status = "alert" THEN
            <<"Isolate #">> \o IntStr(rec.id) \o <<": ", MOCK_FEATURE_NAME(feat), " changed ">>
            \o NatStr(pct) \o <<"%, ", DiseaseStr(rec.dominant_disease), " risk at ">>
            \o IntStr(rec.risk_score \div 1000) \o <<"% -- contact with #">>
            \o IntStr(neighbour) \o <<". ", ACTIONS_get(rec.dominant_disease, "Monitor closely.")>>
        ELSE IF rec.status = "watch" THEN
            <<"Watch #">> \o IntStr(rec.id) \o <<": ", MOCK_FEATURE_NAME(feat), " shifted ">>
            \o NatStr(pct) \o <<"%, ", DiseaseStr(rec.dominant_disease), " risk at ">>
            \o IntStr(rec.risk_score \div 1000) \o <<"% -- near #">>
            \o IntStr(neighbour) \o <<". ", ACTIONS_get(rec.dominant_disease, "Continue monitoring.")>>
        ELSE
            <<"No action needed for #">> \o IntStr(rec.id)
            \o <<" -- low risk across all diseases, routine monitoring only.">>

\* lines 202-245: the entry of one herd record.  draw holds what the
\* generator returned: the neighbour and its weight, the feature, the
\* delta and the per-disease risks.
mock_explain_of(rec, draw) ==
    LET feat == IF rec.top_feature.isNone THEN draw.feat ELSE rec.top_feature.v
        delta == IF rec.status # "ok" THEN draw.delta ELSE 0
        risks == IF rec.all_risks.isNone THEN draw.risks ELSE rec.all_risks.v
    IN  [cow_id |-> rec.id, risk_score |-> rec.risk_score,
         top_edge |-> Edge(rec.id, draw.neighbour, draw.weight),
         top_feature |-> feat, feature_delta |-> delta,
         dominant_disease |-> rec.dominant_disease, all_risks |-> risks,
         alert_text |-> mock_alert_text(rec, feat, delta, draw.neighbour)]

(***************************************************************************)
(* main.py: the ingestion routes.  A JSON value is a record with its type  *)
(* t, its text v as the body wrote it, and its items if it is a list; a    *)
(* JSON object is a function from its keys to JSON values.  A normalized   *)
(* record is [cow_id, date, metric, value].                                *)
(***************************************************************************)
JNull == [t |-> "null", v |-> "", items |-> <<>>]
JInt(s) == [t |-> "int", v |-> s, items |-> <<>>]
JFloat(s) == [t |-> "float", v |-> s, items |-> <<>>]
JStr(s) == [t |-> "str", v |-> s, items |-> <<>>]
JList(l) == [t |-> "list", v |-> "", items |-> l]

\* date.today().isoformat(): the day the request is handled
Today == "2026-03-02"

\* body.get(key)
JGet(body, key) == IF key \in DOMAIN body THEN body[key] ELSE JNull
\* bool(x) of a JSON value
JTruthy(j) ==
    CASE j.t = "null" -> FALSE
      [] j.t = "str" -> j.v # ""
      [] j.t = "list" -> Len(j.items) > 0
      [] OTHER -> j.v \notin {"0", "0.0"}

\* int(x): the integers the drawn bodies write, as numbers or as strings
int_of(j) ==
    IF j.t \in {"null", "list"} THEN Raise("TypeError", 0)
    ELSE CASE j.v = "47" -> Return(47)
           [] j.v = "31" -> Return(31)
           [] j.v = "47.9" /\ j.t = "float" -> Return(47)
           [] OTHER -> Raise("ValueError", 0)
\* float(x): an int gains ".0", a numeric string is read, other text raises
float_of(j) ==
    IF j.t \in {"null", "list"} THEN Raise("TypeError", JNull)
    ELSE CASE j.t = "float" -> Return(j)
           [] j.v = "24" -> Return(JFloat("24.0"))
           [] j.v = "24.5" -> Return(JFloat("24.5"))
           [] OTHER -> Raise("ValueError", JNull)
\* str(x)
str_of(j) == IF j.t = "null" THEN "None" ELSE j.v

\* str(datetime.fromisoformat(str(ts).replace("Z", "+00:00")).date()), or
\* today's date when the text is no ISO timestamp (lines 104-108)
webhook_date(ts) ==
    CASE ts.t = "str" /\ ts.v = "2026-03-01T10:00:00Z" -> "2026-03-01"
      [] ts.t = "str" /\ ts.v = "2026-03-01" -> "2026-03-01"
      [] OTHER -> Today

Rec(c, dt, m, val) == [cow_id |-> c, date |-> dt, metric |-> m, value |-> val]

\* lines 85-100
normalize_manual(body) ==
    IF "cow_id" \notin DOMAIN body THEN Raise("KeyError", <<>>)
    ELSE IF int_of(body["cow_id"]).exc # "none"
    THEN Raise(int_of(body["cow_id"]).exc, <<>>)
    ELSE
    LET c == int_of(body["cow_id"]).value
        dt == IF JTruthy(JGet(body, "date")) THEN str_of(body["date"]) ELSE Today
        milk == JGet(body, "milk_yield_kg")
        event == JGet(body, "health_event")
    IN  IF milk.t # "null" /\ float_of(milk).exc # "none"
        THEN Raise(float_of(milk).exc, <<>>)
        ELSE Return(
            (IF milk.t # "null"
             THEN <<Rec(c, dt, "milk_yield_kg", float_of(milk).value)>> ELSE <<>>)
            \o (IF JTruthy(JGet(body, "pen_id"))
                THEN <<Rec(c, dt, "pen_id", JStr(str_of(body["pen_id"])))>> ELSE <<>>)
            \o (IF JTruthy(event) /\ event # JStr("none")
                THEN <<Rec(c, dt, "health_event", JFloat("1.0")),
                       Rec(c, dt, "health_event_type", JStr(str_of(event)))>>
                ELSE <<>>))

\* lines 103-110
normalize_webhook(body) ==
    LET ts == IF JTruthy(JGet(body, "timestamp")) THEN body["timestamp"] ELSE JStr(Today)
    IN  IF int_of(body["cow_id"]).exc # "none"
        THEN Raise(int_of(body["cow_id"]).exc, <<>>)
        ELSE IF "value" \notin DOMAIN body THEN Raise("KeyError", <<>>)
        ELSE Return(<<Rec(int_of(body["cow_id"]).value, webhook_date(ts),
                          str_of(body["metric"]), body["value"])>>)

\* lines 113-117: the items in order; the first exception ends the loop
RECURSIVE normalize_batch(_)
normalize_batch(records) ==
    IF Len(records) = 0 THEN Return(<<>>)
    ELSE LET first == normalize_manual(Head(records))
             rest == normalize_batch(Tail(records))
         IN  IF first.exc # "none" THEN first
             ELSE IF rest.exc # "none" THEN rest
             ELSE Return(first.value \o rest.value)

\* the (cow_id, date, metric, value) records of one row of the frame
RECURSIVE row_records(_, _, _, _)
row_records(row, c, dt, cols) ==
    IF Len(cols) = 0 THEN <<>>
    ELSE (IF row[Head(cols)].t # "null"
          THEN <<Rec(c, dt, Head(cols), row[Head(cols)])>> ELSE <<>>)
         \o row_records(row, c, dt, Tail(cols))

\* lines 120-134.  A frame is its column names and its rows; an empty
\* cell (NaN) is the null value.
RECURSIVE normalize_rows(_, _, _)
normalize_rows(rows, has_date, metric_cols) ==
    IF Len(rows) = 0 THEN Return(<<>>)
    ELSE LET row == Head(rows)
             c == int_of(row["cow_id"])
             dt == IF has_date THEN (IF row["date"].t = "null" THEN "nan"
                                     ELSE str_of(row["date"]))
                   ELSE Today
             rest == normalize_rows(Tail(rows), has_date, metric_cols)
         IN  IF c.exc # "none" THEN Raise("ValueError", <<>>)
             ELSE IF rest.exc # "none" THEN rest
             ELSE Return(row_records(row, c.value, dt, metric_cols) \o rest.value)

normalize_csv(df) ==
    LET IsMetric(col) == col \notin {"cow_id", "date"}
    IN  normalize_rows(df.rows, Contains(df.columns, "date"),
                       SelectSeq(df.columns, IsMetric))

\* what a request to /api/ingest is answered, and the store it leaves
Answer(code, records, store) ==
    [code |-> code, rows_ingested |-> Len(records), records |-> records,
     store |-> store]
Rejected(code, store) == Answer(code, <<>>, store)

\* lines 234-261: the records parsed from the request, or the status of
\* the HTTPException raised ("400", "422"), or the exception that escapes
parse_request(req) ==
    IF req.ct = "multipart" THEN
        IF req.file # "upload" THEN Raise("400", <<>>)
        ELSE IF ~req.csv.ok THEN Raise("422", <<>>)
        ELSE IF ~Contains(req.csv.df.columns, "cow_id") THEN Raise("422", <<>>)
        ELSE normalize_csv(req.csv.df)
    ELSE
        IF req.json.shape = "invalid" THEN Raise("400", <<>>)
        ELSE IF req.json.shape # "dict" \/ "cow_id" \notin DOMAIN req.json.body
        THEN Raise("422", <<>>)
        ELSE IF "records" \in DOMAIN req.json.body THEN
            IF req.json.body["records"].t # "list" THEN Raise("TypeError", <<>>)
            ELSE normalize_batch(req.json.body["records"].items)
        ELSE IF "metric" \in DOMAIN req.json.body
        THEN normalize_webhook(req.json.body)
        ELSE normalize_manual(req.json.body)

\* the same end of the handler replacing the store by the parsed records
store_records_replacing(parsed, store) ==
    IF parsed.exc = "400" THEN Rejected(400, store)
    ELSE IF parsed.exc = "422" THEN Rejected(422, store)
    ELSE IF parsed.exc # "none" THEN Rejected(500, store)
    ELSE IF Len(parsed.value) = 0 THEN Rejected(422, store)
    ELSE Answer(200, parsed.value, parsed.value)

\* lines 263-267, and the answer to what was raised before them: an
\* exception that no handler catches is answered 500
store_records(parsed, store) ==
    IF parsed.exc = "400" THEN Rejected(400, store)
    ELSE IF parsed.exc = "422" THEN Rejected(422, store)
    ELSE IF parsed.exc # "none" THEN Rejected(500, store)
    ELSE IF Len(parsed.value) = 0 THEN Rejected(422, store)
    ELSE Answer(200, parsed.value, store \o parsed.value)

\* lines 223-267: POST /api/ingest
post_ingest(req, store) == store_records(parse_request(req), store)

\* lines 217-220: GET /api/ingest
get_ingest(store) == Answer(200, store, store)

\* a POST in flight: its request, where its handler stands ("start",
\* "awaiting" the form or the JSON body, "reading" the uploaded file,
\* "done"), what it was answered, and two notes of the model: the length
\* of the store when the handler first suspended (seen) and the length of
\* the store when the handler ran its last stretch (at)
new_post(req) ==
    [request |-> req, pc |-> "start", code |-> 0, rows_ingested |-> 0,
     records |-> <<>>, seen |-> 0, at |-> 0]

\* lines 234-238 and 250-251: the handler runs to `await request.form()`
\* or to `await request.json()` and suspends there
post_ingest_receive(post, store) ==
    [post EXCEPT !.pc = "awaiting", !.seen = Len(store)]

\* the last stretch writing back the store as it was when the handler
\* first suspended, extended by the parsed records
post_ingest_finish_stale(post, store) ==
    LET a == post_ingest(post.request, SubSeq(store, 1, post.seen))
    IN  [post |-> [post EXCEPT !.pc = "done", !.code = a.code,
                               !.rows_ingested = a.rows_ingested,
                               !.records = a.records, !.at = Len(store)],
         store |-> a.store]

\* the last stretch of the handler, from its last await to its return or
\* raise (lines 242-267 after `await file.read()`, lines 239-240 when the
\* form has no file, lines 252-267 after `await request.json()`): nothing
\* in it suspends
post_ingest_finish(post, store) ==
    LET a == post_ingest(post.request, store)
    IN  [post |-> [post EXCEPT !.pc = "done", !.code = a.code,
                               !.rows_ingested = a.rows_ingested,
                               !.records = a.records, !.at = Len(store)],
         store |-> a.store]

\* lines 237-241: the form has arrived; with a file in it the handler
\* suspends again at `await file.read()`, without one it raises 400
post_ingest_form(post, store) ==
    IF post.request.file = "upload"
    THEN [post |-> [post EXCEPT !.pc = "reading"], store |-> store]
    ELSE post_ingest_finish(post, store)

(***************************************************************************)
(* Inputs drawn for extract_top_edge.                                      *)
(***************************************************************************)
\* node indices an edge may name; 2 lies outside the two-cow mappings
EdgeIdx == {0, 1, 2}
\* mask weights: 0.0, 0.30004 (rounds down), 0.90006 (rounds up)
Weights == {0, 30004, 90006}
\* index -> cow ID mappings, one with an ID at two indices
CowIdLists == {<<>>, <<10, 20>>, <<20, 20>>, <<10, 20, 30>>}
\* requested cows; 999 is in no mapping
Targets == {10, 20, 999}

SeqsUpTo(S, n) == UNION {[1..k -> S] : k \in 0..n}
EdgeLists == SeqsUpTo(EdgeIdx \X EdgeIdx, MaxEdges)
MaskLists == SeqsUpTo(Weights, MaxEdges)

NoEdge == Return(SelfLoop(0))

InitEdgeArgs ==
    /\ edge_index \in EdgeLists
    /\ edge_mask \in MaskLists
    /\ cow_ids \in CowIdLists
    /\ target_cow_id \in Targets
    /\ edge_out = NoEdge

IdleEdgeCall ==
    /\ edge_index = <<>>
    /\ edge_mask = <<>>
    /\ target_cow_id = 0
    /\ edge_out = NoEdge

IdleEdge == IdleEdgeCall /\ cow_ids = <<>>

(***************************************************************************)
(* Inputs drawn for extract_top_feature.                                   *)
(***************************************************************************)
\* importances: 0.0 and 0.8
Importances == {0, 80000}
FeatureMasks == SeqsUpTo(Importances, Len(FEATURE_NAMES) + MaxExtra)
\* signed deltas, one per canonical feature; several have a fifth digit, and
\* 0.03125 and 0.09375 are exact ties
DeltaValues == <<0, -18004, 8006, 12346, -26, 3125, 99996, -60016, 9375, 100000>>
\* no delta list, or the first n deltas for each n
DeltaLists == {None} \cup {Some(SubSeq(DeltaValues, 1, n)) : n \in 0..Len(DeltaValues)}

NoFeature == Return([name |-> <<>>, delta |-> 0])

InitFeatureArgs ==
    /\ feature_mask \in FeatureMasks
    /\ feature_delta \in DeltaLists
    /\ feature_out = NoFeature

IdleFeature ==
    /\ feature_mask = <<>>
    /\ feature_delta = None
    /\ feature_out = NoFeature

(***************************************************************************)
(* Inputs drawn for generate_alert.                                        *)
(***************************************************************************)
\* well-formed Structured Explanations
XaiInputs ==
    UNION {
        {[cow_id |-> c, risk_score |-> r, top_edge |-> e, top_feature |-> f,
          feature_delta |-> d] :
            r \in {85000, 74000},
            e \in {[from |-> c, to |-> 31, weight |-> 91000], SelfLoop(c)},
            f \in {FEATURE_NAMES[2], FEATURE_NAMES[8], <<"activity">>},
            d \in {0, -18000, 400}} :
        c \in {47, 9}}

\* generated texts, among them the empty and the whitespace-only ones
Texts == {<<>>, <<" ">>, <<"\n", " ">>,
          <<"Isolate", " ", "#47", " ", "now.">>,
          <<" ", "Isolate", " ", "#47", " ", "now.", "\n">>}

JsonValues == {[type |-> "str", text |-> t] : t \in Texts}
              \cup {[type |-> "null", text |-> <<>>], [type |-> "number", text |-> <<>>]}
NoBody == [shape |-> "invalid", keys |-> {}, response |-> [type |-> "null", text |-> <<>>]]
Bodies == {NoBody,
           [shape |-> "list", keys |-> {}, response |-> [type |-> "null", text |-> <<>>]],
           [shape |-> "object", keys |-> {"error"},
            response |-> [type |-> "null", text |-> <<>>]]}
          \cup {[shape |-> "object", keys |-> {"model", "response", "done"}, response |-> v] :
                   v \in JsonValues}
Statuses == {200, 302, 404, 500}
BackendOutcomes ==
    {[kind |-> k, status |-> 0, body |-> NoBody] :
        k \in {"ConnectError", "TimeoutException", "RuntimeError"}}
    \cup {[kind |-> "response", status |-> st, body |-> b] : st \in Statuses, b \in Bodies}

Pending == [kind |-> "pending", status |-> 0, body |-> NoBody]
NoAlert == Return(<<>>)

InitAlertArgs ==
    /\ xai_json \in XaiInputs
    /\ prompt = <<>>
    /\ backend = Pending
    /\ alert_out = NoAlert
    /\ calls = 0
    /\ log = <<>>

IdleAlert ==
    /\ xai_json = [cow_id |-> 0, risk_score |-> 0, top_edge |-> SelfLoop(0),
                   top_feature |-> <<>>, feature_delta |-> 0]
    /\ prompt = <<>>
    /\ backend = Pending
    /\ alert_out = NoAlert
    /\ calls = 0
    /\ log = <<>>

(***************************************************************************)
(* Inputs drawn for build_xai_json.                                        *)
(***************************************************************************)
\* edge lists with their masks: none, the six-edge chain 0-1-2-3 of the unit
\* tests, one edge from a node to itself, and a mask shorter than its list
ExplainerGraphs ==
    {[edge_index |-> <<>>, edge_mask |-> <<>>],
     [edge_index |-> <<<<0, 1>>, <<1, 0>>, <<1, 2>>, <<2, 1>>, <<2, 3>>, <<3, 2>>>>,
      edge_mask |-> <<30000, 30000, 90000, 90000, 50000, 50000>>],
     [edge_index |-> <<<<1, 1>>, <<0, 1>>>>, edge_mask |-> <<90006, 30004>>],
     [edge_index |-> <<<<0, 1>>, <<1, 2>>>>, edge_mask |-> <<12346>>]}
ExplainerMasks ==
    {<<>>, <<10000, 80000, 5000, 2000, 1000, 0, 0, 0, 0, 0>>, <<0, 0, 0>>}
\* keys the explainer output may carry beyond the documented five
OptionalKeys == {"feature_delta", "dominant_disease", "all_risks"}
OptionalValues ==
    [feature_delta |-> SubSeq(DeltaValues, 1, 3),
     dominant_disease |-> "mastitis",
     all_risks |-> [d \in {"mastitis", "brd", "lameness"} |->
                      IF d = "mastitis" THEN 85000 ELSE 12000]]
ExplainerOutputs(id) ==
    {[k \in {"cow_id", "edge_mask", "edge_index", "feature_mask", "feature_names"}
            \cup extra |->
        CASE k = "cow_id" -> id
          [] k = "edge_mask" -> g.edge_mask
          [] k = "edge_index" -> g.edge_index
          [] k = "feature_mask" -> m
          [] k = "feature_names" -> FEATURE_NAMES
          [] OTHER -> OptionalValues[k]] :
        g \in ExplainerGraphs, m \in ExplainerMasks, extra \in SUBSET OptionalKeys}
XaiCowIdLists == {<<10, 20>>, <<10, 20, 30, 40>>, <<20, 20>>}
RiskScores == {0, 75000, 75679, 100000}

NoXaiOut == Return(NoXai)
NoExplainerOutput == [edge_index |-> <<>>, edge_mask |-> <<>>, feature_mask |-> <<>>]

InitXaiArgs ==
    /\ cow_id \in Targets
    /\ risk_score \in RiskScores
    /\ explainer_output \in ExplainerOutputs(cow_id)
    /\ cow_ids \in XaiCowIdLists
    /\ xai_out = NoXaiOut

IdleXai ==
    /\ cow_id = 0
    /\ risk_score = 0
    /\ explainer_output = NoExplainerOutput
    /\ xai_out = NoXaiOut

(***************************************************************************)
(* The mock herd at start.                                                 *)
(***************************************************************************)
NoCow == [id |-> 0, risk_score |-> 0, status |-> "", top_feature |-> Null,
          dominant_disease |-> Null, all_risks |-> Null]
NoResponse == [code |-> 0, cow |-> NoCow]

InitHerdArgs ==
    /\ USE_MOCK \in BOOLEAN
    /\ cid \in COW_IDS
    /\ cow = NoCow
    /\ herd_response = NoResponse

IdleHerdCall ==
    /\ cid = 0
    /\ cow = NoCow
    /\ herd_response = NoResponse
IdleHerd == IdleHerdCall /\ USE_MOCK = FALSE

(***************************************************************************)
(* graph_utils.py as delivered: the documented return shapes of            *)
(* run_inference and get_gnn_explainer_output, for the demo roster.  As    *)
(* long as the stubs are in place (ml_ready = FALSE) build_graph raises    *)
(* NotImplementedError instead.                                            *)
(***************************************************************************)
\* line 23: COW_IDS of graph_utils, the demo farm roster
GRAPH_COW_IDS == <<47, 31, 22, 8, 15, 3, 9, 27>>

\* run_inference's "cows" list for one risk score per roster cow
inference_of(scores) ==
    [cows |-> [k \in 1..Len(GRAPH_COW_IDS) |->
        [id |-> GRAPH_COW_IDS[k], risk_score |-> scores[k],
         status |-> risk_status(scores[k]),
         top_feature |-> IF risk_status(scores[k]) = "ok" THEN Null
                         ELSE Val("milk_yield_kg")]]]

\* get_gnn_explainer_output's dict for cow id: the given edges and masks
explainer_of(id, g, m) ==
    [cow_id |-> id, edge_mask |-> g.edge_mask, edge_index |-> g.edge_index,
     feature_mask |-> m, feature_names |-> FEATURE_NAMES]

(***************************************************************************)
(* xai_bridge.py: explain_cow, and main.py: GET /explain/{cow_id}.         *)
(***************************************************************************)
\* lines 207-216
not_found_response(id) ==
    [cow_id |-> id, risk_score |-> 0, top_edge |-> Edge(id, id, 0),
     top_feature |-> "unknown", feature_delta |-> 0,
     alert_text |-> <<"No data available for cow #">> \o IntStr(id) \o <<".">>]

\* line 183: MOCK_EXPLAIN.get(cow_id, _not_found_response(cow_id))
mock_explain_get(table, id) ==
    IF id \in DOMAIN table THEN table[id] ELSE not_found_response(id)

\* the explanation returned with only its identifier and its text
alert_only(xai, text) == [cow_id |-> xai.cow_id, alert_text |-> text]

\* line 204: {**xai_json, "alert_text": alert_text}
with_alert_text(xai, text) ==
    [k \in DOMAIN xai \cup {"alert_text"} |->
        IF k = "alert_text" THEN text ELSE xai[k]]

\* line 192: the first cow of the inference result with this ID, or None
cow_data_of(result, id) ==
    LET Hit(c) == c.id = id
        hits == SelectSeq(result.cows, Hit)
    IN  IF Len(hits) = 0 THEN None ELSE Some(<<Head(hits)>>)

\* a request: who called ("route" for GET /explain/{cow_id}, "direct" for
\* a call of explain_cow), for which cow, where it stands, the collaborators
\* it has called in order, the Structured Explanation it built, the POSTs it
\* issued, what the backend did, its log lines, what explain_cow produced
\* and what the route answered
NoOut == [exc |-> "pending", value |-> NoXai]
NoHttp == [code |-> 0, body |-> NoXai]
new_request(entry, id) ==
    [entry |-> entry, cow_id |-> id, pc |-> "start", called |-> <<>>,
     xai |-> NoXai, prompt |-> <<>>, calls |-> 0, backend |-> Pending,
     log |-> <<>>, out |-> NoOut, http |-> NoHttp]

\* main.py lines 211-214 and the framework around them: the answer to a
\* request whose explain_cow call has produced out
route_answer(out) ==
    IF out.exc = "none" THEN [code |-> 200, body |-> out.value]
    ELSE IF out.exc = "ValueError" THEN [code |-> 404, body |-> NoXai]
    ELSE [code |-> 500, body |-> NoXai]

\* the request after explain_cow has produced out
finished(req, out) ==
    [req EXCEPT !.pc = "done", !.out = out,
                !.http = IF req.entry = "route" THEN route_answer(out) ELSE NoHttp]

\* main.py lines 202-209: the route in mock mode, which does not call
\* explain_cow
get_explain_mock(req, table) ==
    [req EXCEPT !.pc = "done",
                !.http = IF req.cow_id \notin DOMAIN table
                         THEN [code |-> 404, body |-> NoXai]
                         ELSE [code |-> 200, body |-> table[req.cow_id]]]

\* explain_cow, lines 182-202, up to the awaited POST of generate_alert or
\* to the return or raise that comes before it.  eo is what
\* get_gnn_explainer_output returns if it is asked.
explain_cow_start(req, mock, table, ready, result, eo) ==
    IF mock THEN finished(req, Return(mock_explain_get(table, req.cow_id)))
    ELSE IF ~ready THEN
        finished([req EXCEPT !.called = <<"build_graph">>],
                 Raise("NotImplementedError", NoXai))
    ELSE
    LET cow_data == cow_data_of(result, req.cow_id)
    IN  IF cow_data.isNone THEN
            finished([req EXCEPT !.called = <<"build_graph", "run_inference">>],
                     Raise("ValueError", NoXai))
        ELSE
        LET risk == cow_data.list[1].risk_score
            ids == [k \in 1..Len(result.cows) |-> result.cows[k].id]
            xai == build_xai_json(req.cow_id, risk, eo, ids)
        IN  IF xai.exc # "none" THEN
                finished([req EXCEPT !.called = <<"build_graph", "run_inference",
                                                  "get_gnn_explainer_output",
                                                  "build_xai_json">>],
                         Raise(xai.exc, NoXai))
            ELSE [req EXCEPT !.called = <<"build_graph", "run_inference",
                                          "get_gnn_explainer_output",
                                          "build_xai_json", "generate_alert">>,
                             !.xai = xai.value,
                             !.prompt = build_user_prompt(xai.value),
                             !.calls = req.calls + 1,
                             !.pc = "awaiting"]

\* the same with one more POST issued when the first one has failed
explain_cow_resume_retrying(req, b) ==
    IF ExceptionOf(b) # "none" /\ req.calls < 2
    THEN [req EXCEPT !.calls = req.calls + 1, !.backend = b]
    ELSE LET alert == finish_alert(req.xai, b)
         IN  finished([req EXCEPT !.backend = b, !.log = Append(req.log, alert.line)],
                      Return(with_alert_text(req.xai, alert.out.value)))

\* the same with the Structured Explanation kept in one module-level slot
\* that every request overwrites: the resumed request reads what the
\* request that ran last has left there
explain_cow_resume_sharing(req, b) ==
    LET last == reqs[schedule[Len(schedule)]]
        shared == IF last.xai = NoXai THEN req.xai ELSE last.xai
        alert == finish_alert(shared, b)
    IN  finished([req EXCEPT !.backend = b, !.log = Append(req.log, alert.line)],
                 Return(with_alert_text(shared, alert.out.value)))

\* explain_cow, lines 202-204, once the POST has been answered or has
\* raised with b: generate_alert returns and the explanation is completed
explain_cow_resume(req, b) ==
    LET alert == finish_alert(req.xai, b)
    IN  finished([req EXCEPT !.backend = b, !.log = Append(req.log, alert.line)],
                 Return(with_alert_text(req.xai, alert.out.value)))

(***************************************************************************)
(* Inputs drawn for explanation requests.                                  *)
(***************************************************************************)
\* the generator's draws for a cow of _build_explain: no neighbour, or one
\* with a weight from either end of its range; two of the features; either
\* end of the delta range and of the per-disease risk range
MockDraws(c) ==
    {[neighbour |-> e.to, weight |-> e.weight, feat |-> f, delta |-> d,
      risks |-> [x \in DISEASES |-> r]] :
        e \in {Edge(c, c, 0), Edge(c, 47, 30000), Edge(c, 47, 95000)},
        f \in {"milk_yield_kg", "feeding_min"}, d \in {-25000, 5000},
        r \in {3000, 20000}}
\* herd records of cow c at either end of its risk range
HerdSample(c) ==
    {Overridden(rec) : rec \in {x \in MockCows(c) :
        x.risk_score \in {3000, 34000, 41000, 69000, 72000, 93000}}}
MockExplains(c) ==
    IF c \in DOMAIN HAND_EXPLAIN THEN {HAND_EXPLAIN[c]}
    ELSE {mock_explain_of(rec, d) : rec \in HerdSample(c), d \in MockDraws(c)}
\* one entry per cow of the herd: the hand-crafted ones, every possible
\* entry of the generated cow #1, and one possible entry of each other cow
MockExplainBase ==
    [c \in COW_IDS |->
        IF c \in DOMAIN HAND_EXPLAIN THEN HAND_EXPLAIN[c]
        ELSE mock_explain_of(CHOOSE rec \in HerdSample(c) : TRUE,
                             CHOOSE d \in MockDraws(c) : TRUE)]
MockExplainDicts ==
    {[MockExplainBase EXCEPT ![1] = x] : x \in MockExplains(1)}

\* two inference results over the roster: in the first #47 is an alert cow
\* and #9 a watch cow, in the second #47 sits on the 0.70 boundary (watch)
\* and #9 is an alert cow
InferenceResults ==
    {inference_of(<<85123, 62000, 22000, 12000, 74000, 5000, 41000, 30000>>),
     inference_of(<<70000, 62000, 22000, 12000, 74000, 5000, 91000, 30000>>)}
NoInference == [cows |-> <<>>]

\* explainer outputs over the roster's node indices: #47 (node 0) tied to
\* #31 and #9 (node 6), no edges at all, and edges naming node 8, which
\* the roster does not have; a feature mask peaking at its second entry,
\* and an empty one
RosterGraphs ==
    {[edge_index |-> <<<<0, 1>>, <<1, 0>>, <<0, 6>>, <<6, 0>>, <<6, 2>>, <<2, 6>>>>,
      edge_mask |-> <<91004, 91004, 64006, 64006, 30000, 30000>>],
     [edge_index |-> <<>>, edge_mask |-> <<>>],
     [edge_index |-> <<<<0, 8>>, <<6, 8>>>>, edge_mask |-> <<50000, 50000>>]}
RosterMasks == {<<10000, 80000, 5000, 2000, 1000, 0, 0, 0, 0, 0>>, <<>>}
ExplainerChoices(id) ==
    {explainer_of(id, g, m) : g \in RosterGraphs, m \in RosterMasks}

\* what the backend does to an explanation request: the three exceptions, a
\* 500, a 200 without "response", and 200s with a sentence and with blanks
ExplainOutcomes ==
    {b \in BackendOutcomes :
        \/ b.kind # "response"
        \/ b.status = 500 /\ b.body = NoBody
        \/ /\ b.status = 200 /\ b.body.shape = "object"
           /\ \/ "response" \notin b.body.keys
              \/ /\ b.body.response.type = "str"
                 /\ b.body.response.text \in
                       {<<" ">>, <<" ", "Isolate", " ", "#47", " ", "now.", "\n">>}}

\* requested cows: #47 and #9 are in the mock herd and in the roster, #1 is
\* in the mock herd only, #999 is nowhere
ExplainIds == {47, 9, 1, 999}
RequestIds == {1, 2}
NewRequests == {new_request(e, id) : e \in {"route", "direct"}, id \in ExplainIds}

IdleExplain ==
    /\ reqs = <<>>
    /\ ml_ready = FALSE
    /\ inference = NoInference
    /\ MOCK_EXPLAIN = <<>>
    /\ schedule = <<>>

InitExplainArgs ==
    /\ reqs \in [RequestIds -> NewRequests]
    /\ schedule = <<>>
    /\ \/ /\ USE_MOCK = TRUE
          /\ MOCK_EXPLAIN \in MockExplainDicts
          /\ ml_ready = FALSE
          /\ inference = NoInference
       \/ /\ USE_MOCK = FALSE
          /\ MOCK_EXPLAIN = MockExplainBase
          /\ \/ ml_ready = FALSE /\ inference = NoInference
             \/ ml_ready = TRUE /\ inference \in InferenceResults

(***************************************************************************)
(* Inputs drawn for /api/ingest.                                           *)
(***************************************************************************)
NoCsv == [ok |-> FALSE, df |-> [columns |-> <<>>, rows |-> <<>>]]
NoJson == [shape |-> "none", body |-> <<>>]
JsonRequest(shape, body) ==
    [ct |-> "json", file |-> "none", csv |-> NoCsv, json |-> [shape |-> shape, body |-> body]]
MultipartRequest(file, csv) ==
    [ct |-> "multipart", file |-> file, csv |-> csv, json |-> NoJson]
Frame(columns, rows) == [ok |-> TRUE, df |-> [columns |-> columns, rows |-> rows]]

\* single-record bodies: one metric; a string ID with a date, a pen and a
\* health event; no metric at all; a null yield with the event "none"; an
\* ID that is no number; no cow_id
ManualBodies ==
    {[cow_id |-> JInt("47"), milk_yield_kg |-> JFloat("24.5")],
     [cow_id |-> JStr("31"), date |-> JStr("2026-03-01"), pen_id |-> JStr("B"),
      health_event |-> JStr("mastitis")],
     [cow_id |-> JInt("47")],
     [cow_id |-> JInt("47"), milk_yield_kg |-> JNull, health_event |-> JStr("none")],
     [cow_id |-> JStr("abc"), milk_yield_kg |-> JInt("24")],
     [milk_yield_kg |-> JFloat("24.5")]}
\* webhook bodies: with an ISO timestamp, without one, with one that is no
\* timestamp, and without a value
WebhookBodies ==
    {[cow_id |-> JInt("47"), metric |-> JStr("ear_temp_c"), value |-> JFloat("39.1"),
      timestamp |-> JStr("2026-03-01T10:00:00Z")],
     [cow_id |-> JInt("31"), metric |-> JStr("activity"), value |-> JInt("12")],
     [cow_id |-> JInt("31"), metric |-> JStr("activity"), value |-> JInt("12"),
      timestamp |-> JStr("yesterday")],
     [cow_id |-> JInt("47"), metric |-> JStr("ear_temp_c")]}
\* items of a batch: the second yields three records
Item1 == [cow_id |-> JInt("47"), milk_yield_kg |-> JInt("24")]
Item2 == [cow_id |-> JInt("31"), date |-> JStr("2026-03-01"), pen_id |-> JStr("B"),
          health_event |-> JStr("lameness")]
\* batch bodies: the documented form {"records": [...]}, with one item and
\* with two; the same under a top-level cow_id; an empty list; an item
\* without cow_id; records that is null
BatchBodies ==
    {[records |-> JList(<<Item1>>)],
     [records |-> JList(<<Item2, Item1>>)],
     [cow_id |-> JInt("47"), records |-> JList(<<Item1>>)],
     [cow_id |-> JInt("47"), records |-> JList(<<Item2, Item1>>)],
     [cow_id |-> JInt("47"), records |-> JList(<<>>)],
     [cow_id |-> JInt("47"), records |-> JList(<<Item1, [pen_id |-> JStr("B")]>>)],
     [cow_id |-> JInt("47"), records |-> JNull]}
\* uploads: no file field, a text field named file, a file that is no CSV,
\* a frame without cow_id, a frame with a date column and an empty cell, a
\* frame without date, and a frame with no metric column
Uploads ==
    {MultipartRequest("none", NoCsv), MultipartRequest("text", NoCsv),
     MultipartRequest("upload", NoCsv),
     MultipartRequest("upload", Frame(<<"id", "milk_yield_kg">>,
        <<[id |-> JInt("47"), milk_yield_kg |-> JFloat("24.5")]>>)),
     MultipartRequest("upload", Frame(<<"cow_id", "date", "milk_yield_kg", "pen_id">>,
        <<[cow_id |-> JInt("47"), date |-> JStr("2026-03-01"),
           milk_yield_kg |-> JFloat("24.5"), pen_id |-> JNull],
          [cow_id |-> JInt("31"), date |-> JStr("2026-03-01"),
           milk_yield_kg |-> JNull, pen_id |-> JStr("B")]>>)),
     MultipartRequest("upload", Frame(<<"cow_id", "milk_yield_kg">>,
        <<[cow_id |-> JInt("47"), milk_yield_kg |-> JFloat("24.5")]>>)),
     MultipartRequest("upload", Frame(<<"cow_id">>, <<[cow_id |-> JInt("47")]>>))}
IngestRequests ==
    {JsonRequest("invalid", <<>>), JsonRequest("list", <<>>)}
    \cup {JsonRequest("dict", b) : b \in ManualBodies \cup WebhookBodies \cup BatchBodies}
    \cup Uploads
NoRequest == JsonRequest("none", <<>>)

NoIngestResponse ==
    [method |-> "none", request |-> NoRequest, code |-> 0, rows_ingested |-> 0,
     records |-> <<>>]

IdleIngest ==
    /\ _records = <<>>
    /\ ingest_response = NoIngestResponse
    /\ appended = 0
    /\ posts = <<>>

\* requests that are in flight together: a body that is no JSON, one
\* without cow_id, one without any metric, one whose records are null, a
\* form without a file and a file that is no CSV; and a single record, a
\* batch of four and an upload of two
ConcurrentRequests ==
    {JsonRequest("invalid", <<>>),
     JsonRequest("dict", [milk_yield_kg |-> JFloat("24.5")]),
     JsonRequest("dict", [cow_id |-> JInt("47")]),
     JsonRequest("dict", [cow_id |-> JInt("47"), records |-> JNull]),
     MultipartRequest("none", NoCsv),
     MultipartRequest("upload", NoCsv),
     JsonRequest("dict", [cow_id |-> JInt("47"), milk_yield_kg |-> JFloat("24.5")]),
     JsonRequest("dict", [cow_id |-> JInt("47"), records |-> JList(<<Item2, Item1>>)]),
     MultipartRequest("upload", Frame(<<"cow_id", "date", "milk_yield_kg", "pen_id">>,
        <<[cow_id |-> JInt("47"), date |-> JStr("2026-03-01"),
           milk_yield_kg |-> JFloat("24.5"), pen_id |-> JNull],
          [cow_id |-> JInt("31"), date |-> JStr("2026-03-01"),
           milk_yield_kg |-> JNull, pen_id |-> JStr("B")]>>))}
PostIds == {1, 2, 3}

InitPosts ==
    /\ _records = <<>>
    /\ ingest_response = NoIngestResponse
    /\ appended = 0
    /\ posts \in [PostIds -> {new_post(req) : req \in ConcurrentRequests}]

\* one call of extract_top_edge on the drawn arguments
ExtractTopEdge ==
    /\ pc = "start"
    /\ edge_out' = extract_top_edge(edge_index, edge_mask, cow_ids, target_cow_id)
    /\ pc' = "done"
    /\ UNCHANGED <<edge_index, edge_mask, cow_ids, target_cow_id>>
    /\ UNCHANGED <<featVars, alertVars, xaiVars, herdVars, explainVars, ingestVars>>

\* one call of extract_top_feature on the drawn arguments
ExtractTopFeature ==
    /\ pc = "start"
    /\ feature_out' = extract_top_feature(feature_mask, feature_delta)
    /\ pc' = "done"
    /\ UNCHANGED <<feature_mask, feature_delta>>
    /\ UNCHANGED <<edgeVars, alertVars, xaiVars, herdVars, explainVars, ingestVars>>

\* generate_alert up to its await: the prompt is built and the one POST goes out
GenerateAlertPost ==
    /\ pc = "start"
    /\ prompt' = build_user_prompt(xai_json)
    /\ calls' = calls + 1
    /\ pc' = "awaiting"
    /\ UNCHANGED <<xai_json, backend, alert_out, log>>
    /\ UNCHANGED <<edgeVars, featVars, xaiVars, herdVars, explainVars, ingestVars>>

\* the POST is answered or raises, and generate_alert runs to its return
GenerateAlertResume ==
    /\ pc = "awaiting"
    /\ \E b \in BackendOutcomes :
          /\ backend' = b
          /\ alert_out' = finish_alert(xai_json, b).out
          /\ log' = Append(log, finish_alert(xai_json, b).line)
    /\ pc' = "done"
    /\ UNCHANGED <<xai_json, prompt, calls>>
    /\ UNCHANGED <<edgeVars, featVars, xaiVars, herdVars, explainVars, ingestVars>>

\* one call of build_xai_json on the drawn arguments
BuildXaiJson ==
    /\ pc = "start"
    /\ xai_out' = build_xai_json(cow_id, risk_score, explainer_output, cow_ids)
    /\ pc' = "done"
    /\ UNCHANGED <<cow_id, risk_score, explainer_output>>
    /\ UNCHANGED <<edgeVars, featVars, alertVars, herdVars, explainVars, ingestVars>>

\* _build_mock, loop of lines 39-66: the record of cow cid is appended
BuildMockAppend ==
    /\ pc = "start"
    /\ cow' \in MockCows(cid)
    /\ pc' = "appended"
    /\ UNCHANGED <<USE_MOCK, cid, herd_response>>
    /\ UNCHANGED <<edgeVars, featVars, alertVars, xaiVars, explainVars, ingestVars>>

\* _build_mock, loop of lines 86-88: the hand-crafted values are written over it
BuildMockOverride ==
    /\ pc = "appended"
    /\ cow' = Overridden(cow)
    /\ pc' = "built"
    /\ UNCHANGED <<USE_MOCK, cid, herd_response>>
    /\ UNCHANGED <<edgeVars, featVars, alertVars, xaiVars, explainVars, ingestVars>>

\* GET /herd: MOCK_HERD in mock mode; otherwise build_graph raises
\* NotImplementedError and the request fails with a 500
GetHerd ==
    /\ pc = "built"
    /\ herd_response' = IF USE_MOCK THEN [code |-> 200, cow |-> cow]
                         ELSE [code |-> 500, cow |-> NoCow]
    /\ pc' = "done"
    /\ UNCHANGED <<USE_MOCK, cid, cow>>
    /\ UNCHANGED <<edgeVars, featVars, alertVars, xaiVars, explainVars, ingestVars>>

\* GET /explain/{cow_id} in mock mode: answered from MOCK_EXPLAIN
GetExplainMock ==
    /\ \E r \in DOMAIN reqs :
          /\ reqs[r].pc = "start" /\ reqs[r].entry = "route" /\ USE_MOCK
          /\ reqs' = [reqs EXCEPT ![r] = get_explain_mock(reqs[r], MOCK_EXPLAIN)]
          /\ schedule' = Append(schedule, r)
    /\ UNCHANGED <<ml_ready, inference, MOCK_EXPLAIN, pc>>
    /\ UNCHANGED <<edgeVars, featVars, alertVars, xaiVars, herdVars, ingestVars>>

\* explain_cow, called by the route outside mock mode or called directly,
\* runs until it returns, raises or suspends at the awaited POST
ExplainCowStart ==
    /\ \E r \in DOMAIN reqs :
          /\ reqs[r].pc = "start"
          /\ reqs[r].entry = "direct" \/ ~USE_MOCK
          /\ \E eo \in ExplainerChoices(reqs[r].cow_id) :
                reqs' = [reqs EXCEPT ![r] =
                    explain_cow_start(reqs[r], USE_MOCK, MOCK_EXPLAIN, ml_ready,
                                      inference, eo)]
          /\ schedule' = Append(schedule, r)
    /\ UNCHANGED <<ml_ready, inference, MOCK_EXPLAIN, pc>>
    /\ UNCHANGED <<edgeVars, featVars, alertVars, xaiVars, herdVars, ingestVars>>

\* the POST of a suspended request is answered or raises, and explain_cow
\* runs to its return
ExplainCowResume ==
    /\ \E r \in DOMAIN reqs :
          /\ reqs[r].pc = "awaiting"
          /\ \E b \in ExplainOutcomes :
                reqs' = [reqs EXCEPT ![r] = explain_cow_resume(reqs[r], b)]
          /\ schedule' = Append(schedule, r)
    /\ UNCHANGED <<ml_ready, inference, MOCK_EXPLAIN, pc>>
    /\ UNCHANGED <<edgeVars, featVars, alertVars, xaiVars, herdVars, ingestVars>>

\* POST /api/ingest with one of the drawn requests
PostIngest ==
    /\ \E req \in IngestRequests :
          LET a == post_ingest(req, _records)
          IN  /\ Len(a.store) <= MaxStore
              /\ _records' = a.store
              /\ ingest_response' = [method |-> "POST", request |-> req, code |-> a.code,
                                     rows_ingested |-> a.rows_ingested,
                                     records |-> a.records]
              /\ appended' = appended + (IF a.code = 200 THEN a.rows_ingested ELSE 0)
    /\ UNCHANGED <<posts, pc>>
    /\ UNCHANGED <<edgeVars, featVars, alertVars, xaiVars, herdVars, explainVars>>

\* GET /api/ingest
GetIngest ==
    /\ LET a == get_ingest(_records)
       IN  /\ _records' = a.store
           /\ ingest_response' = [method |-> "GET", request |-> NoRequest, code |-> a.code,
                                  rows_ingested |-> a.rows_ingested,
                                  records |-> a.records]
    /\ UNCHANGED <<appended, posts, pc>>
    /\ UNCHANGED <<edgeVars, featVars, alertVars, xaiVars, herdVars, explainVars>>

\* a POST /api/ingest arrives: its handler runs to its first await
PostIngestReceive ==
    /\ \E p \in DOMAIN posts :
          /\ posts[p].pc = "start"
          /\ posts' = [posts EXCEPT ![p] = post_ingest_receive(posts[p], _records)]
    /\ UNCHANGED <<_records, ingest_response, appended, pc>>
    /\ UNCHANGED <<edgeVars, featVars, alertVars, xaiVars, herdVars, explainVars>>

\* the form of a multipart POST has arrived
PostIngestForm ==
    /\ \E p \in DOMAIN posts :
          /\ posts[p].pc = "awaiting" /\ posts[p].request.ct = "multipart"
          /\ LET a == post_ingest_form(posts[p], _records)
             IN  /\ posts' = [posts EXCEPT ![p] = a.post]
                 /\ _records' = a.store
    /\ UNCHANGED <<ingest_response, appended, pc>>
    /\ UNCHANGED <<edgeVars, featVars, alertVars, xaiVars, herdVars, explainVars>>

\* the JSON body or the content of the uploaded file has arrived: the
\* handler runs to its end
PostIngestFinish ==
    /\ \E p \in DOMAIN posts :
          /\ \/ posts[p].pc = "awaiting" /\ posts[p].request.ct # "multipart"
             \/ posts[p].pc = "reading"
          /\ LET a == post_ingest_finish(posts[p], _records)
             IN  /\ posts' = [posts EXCEPT ![p] = a.post]
                 /\ _records' = a.store
                 /\ appended' = appended
                        + (IF a.post.code = 200 THEN a.post.rows_ingested ELSE 0)
    /\ UNCHANGED <<ingest_response, pc>>
    /\ UNCHANGED <<edgeVars, featVars, alertVars, xaiVars, herdVars, explainVars>>

vars == <<edgeVars, featVars, alertVars, xaiVars, herdVars, explainVars, ingestVars, pc>>

InitEdge == InitEdgeArgs /\ IdleFeature /\ IdleAlert /\ IdleXai /\ IdleHerd
    /\ IdleExplain /\ IdleIngest /\ pc = "start"
NextEdge == ExtractTopEdge
SpecEdge == InitEdge /\ [][NextEdge]_vars

InitFeature == IdleEdge /\ InitFeatureArgs /\ IdleAlert /\ IdleXai /\ IdleHerd
    /\ IdleExplain /\ IdleIngest /\ pc = "start"
NextFeature == ExtractTopFeature
SpecFeature == InitFeature /\ [][NextFeature]_vars

InitAlert == IdleEdge /\ IdleFeature /\ InitAlertArgs /\ IdleXai /\ IdleHerd
    /\ IdleExplain /\ IdleIngest /\ pc = "start"
NextAlert == GenerateAlertPost \/ GenerateAlertResume
SpecAlert == InitAlert /\ [][NextAlert]_vars

InitXai == IdleEdgeCall /\ IdleFeature /\ IdleAlert /\ InitXaiArgs /\ IdleHerd
    /\ IdleExplain /\ IdleIngest /\ pc = "start"
NextXai == BuildXaiJson
SpecXai == InitXai /\ [][NextXai]_vars

InitHerd == IdleEdge /\ IdleFeature /\ IdleAlert /\ IdleXai /\ InitHerdArgs
    /\ IdleExplain /\ IdleIngest /\ pc = "start"
NextHerd == BuildMockAppend \/ BuildMockOverride \/ GetHerd
SpecHerd == InitHerd /\ [][NextHerd]_vars

InitExplain == IdleEdge /\ IdleFeature /\ IdleAlert /\ IdleXai /\ IdleHerdCall
    /\ InitExplainArgs /\ IdleIngest /\ pc = "start"
NextExplain == GetExplainMock \/ ExplainCowStart \/ ExplainCowResume
SpecExplain == InitExplain /\ [][NextExplain]_vars

InitIngest == IdleEdge /\ IdleFeature /\ IdleAlert /\ IdleXai /\ IdleHerd
    /\ IdleExplain /\ IdleIngest /\ pc = "start"
NextIngest == PostIngest \/ GetIngest
SpecIngest == InitIngest /\ [][NextIngest]_vars

InitConcurrentIngest == IdleEdge /\ IdleFeature /\ IdleAlert /\ IdleXai /\ IdleHerd
    /\ IdleExplain /\ InitPosts /\ pc = "start"
NextConcurrentIngest == PostIngestReceive \/ PostIngestForm \/ PostIngestFinish
SpecConcurrentIngest == InitConcurrentIngest /\ [][NextConcurrentIngest]_vars

(***************************************************************************)
(* Properties of extract_top_edge (specification SpecEdge).                *)
(***************************************************************************)
EdgeDone == pc = "done"
TargetKnown == \E k \in 1..Len(cow_ids) : cow_ids[k] = target_cow_id
\* 0-based index the target resolves to: its first position in the mapping
TargetIdx ==
    (CHOOSE k \in 1..Len(cow_ids) :
        cow_ids[k] = target_cow_id /\ \A j \in 1..(k - 1) : cow_ids[j] # target_cow_id) - 1
\* positions of the edges that have the target index as an endpoint
Touching ==
    {k \in 1..Len(edge_index) :
        edge_index[k][1] = TargetIdx \/ edge_index[k][2] = TargetIdx}
ParallelLists == Len(edge_mask) = Len(edge_index)
\* positions of the incident edges of greatest weight
Heaviest == {k \in Touching : \A j \in Touching : edge_mask[j] <= edge_mask[k]}
FirstHeaviest == CHOOSE k \in Heaviest : \A j \in Heaviest : k <= j
OtherEnd(k) ==
    IF edge_index[k][1] = TargetIdx THEN edge_index[k][2] ELSE edge_index[k][1]
EndpointsMapped ==
    \A k \in 1..Len(edge_index) :
        edge_index[k][1] < Len(cow_ids) /\ edge_index[k][2] < Len(cow_ids)
IsSelfLoopSentinel ==
    edge_out = [exc |-> "none",
                value |-> [from |-> target_cow_id, to |-> target_cow_id, weight |-> 0]]

\* C3: with parallel lists and a known target that has an incident edge, the
\* returned weight is the 4-place rounding of the greatest incident weight and
\* the neighbor is the other end of the first incident edge of that weight;
\* the call returns whenever every endpoint is an index of the mapping.
C3_TopEdgeIsFirstMaximum ==
    (EdgeDone /\ ParallelLists /\ TargetKnown /\ Touching # {}) =>
        /\ EndpointsMapped => edge_out.exc = "none"
        /\ edge_out.exc = "none" =>
            /\ edge_out.value.weight = round4(edge_mask[FirstHeaviest])
            /\ \A k \in Touching : round4(edge_mask[k]) <= edge_out.value.weight
            /\ edge_out.value.to = cow_ids[OtherEnd(FirstHeaviest) + 1]

\* C3 witness: two incident edges share the greatest weight and lead to
\* different neighbors, a lighter incident edge exists, and a result came back.
C3_Witness ==
    /\ EdgeDone /\ ParallelLists /\ TargetKnown /\ edge_out.exc = "none"
    /\ \E a, b \in Heaviest :
          a < b /\ cow_ids[OtherEnd(a) + 1] # cow_ids[OtherEnd(b) + 1]
    /\ edge_out.value.weight = 90010

\* C4 (as claimed): every result has from = target, and to = from only for
\* the zero-weight self-loop of a target that is unknown or has no incident edge.
C4_ToDiffersUnlessSentinel ==
    (EdgeDone /\ ParallelLists /\ edge_out.exc = "none") =>
        /\ edge_out.value.from = target_cow_id
        /\ edge_out.value.to = edge_out.value.from =>
              /\ edge_out.value.weight = 0
              /\ ~TargetKnown \/ Touching = {}

\* C5: a target absent from the mapping yields exactly the self-loop
\* {from: target, to: target, weight: 0.0}, whatever the edge and weight lists.
C5_UnknownTargetSelfLoop ==
    (EdgeDone /\ ~TargetKnown) => IsSelfLoopSentinel

\* C5 witness: an unknown target asked of a non-empty mapping with edges.
C5_Witness ==
    /\ EdgeDone /\ ~TargetKnown /\ IsSelfLoopSentinel
    /\ Len(cow_ids) > 0 /\ Len(edge_index) > 0 /\ Len(edge_mask) > 0

\* C6: a known target whose index is an endpoint of no edge yields the
\* same self-loop, the empty edge list included.
C6_IsolatedTargetSelfLoop ==
    (EdgeDone /\ TargetKnown /\ Touching = {}) => IsSelfLoopSentinel

\* C6 witness: a known target, edges between other nodes, none touching it.
C6_Witness ==
    /\ EdgeDone /\ TargetKnown /\ Touching = {} /\ IsSelfLoopSentinel
    /\ Len(edge_index) > 0 /\ Len(edge_mask) = Len(edge_index)

(***************************************************************************)
(* Properties of extract_top_feature (specification SpecFeature).          *)
(***************************************************************************)
FeatureDone == pc = "done"
MaskFits == Len(feature_mask) > 0 /\ Len(feature_mask) <= Len(FEATURE_NAMES)
\* 1-based positions holding the greatest importance of the mask
Peaks == {k \in 1..Len(feature_mask) :
            \A j \in 1..Len(feature_mask) : feature_mask[j] <= feature_mask[k]}
FirstPeak == CHOOSE k \in Peaks : \A j \in Peaks : k <= j
DeltaCovers(k) == ~feature_delta.isNone /\ Len(feature_delta.list) >= k

\* C7: an empty mask, or one longer than the canonical name list, yields
\* (first canonical name, 0.0) without raising, whatever the delta list.
C7_MalformedMaskDefault ==
    (FeatureDone /\ ~MaskFits) =>
        /\ feature_out.exc = "none"
        /\ feature_out.value.name = FEATURE_NAMES[1]
        /\ feature_out.value.delta = 0

\* C7 witness: both malformed shapes, each with a delta list whose first
\* entries are not all zero.
C7_WitnessEmpty ==
    /\ FeatureDone /\ Len(feature_mask) = 0 /\ feature_out.exc = "none"
    /\ ~feature_delta.isNone /\ Len(feature_delta.list) > 1
C7_Witness ==
    /\ FeatureDone /\ Len(feature_mask) > Len(FEATURE_NAMES)
    /\ feature_out.exc = "none"
    /\ feature_mask[1] = 0 /\ feature_mask[2] > 0
    /\ ~feature_delta.isNone /\ Len(feature_delta.list) > 1

\* C8: a non-empty mask that fits yields the canonical name at the first
\* index of greatest importance, with the delta at that index rounded to 4
\* places when a delta list reaches that index, and 0.0 otherwise.
C8_TopFeatureIsFirstMaximum ==
    (FeatureDone /\ MaskFits) =>
        /\ feature_out.exc = "none"
        /\ feature_out.value.name = FEATURE_NAMES[FirstPeak]
        /\ \E k \in 1..Len(FEATURE_NAMES) : feature_out.value.name = FEATURE_NAMES[k]
        /\ feature_out.value.delta =
              IF DeltaCovers(FirstPeak)
              THEN round4(feature_delta.list[FirstPeak]) ELSE 0
        /\ feature_out.value.delta % 10 = 0

\* C8 witness: the greatest importance occurs twice, first at the second
\* feature, whose delta -0.18004 comes back as -0.18.
C8_Witness ==
    /\ FeatureDone /\ MaskFits /\ Cardinality(Peaks) >= 2 /\ FirstPeak = 2
    /\ feature_mask[2] > 0
    /\ feature_out.value.name = <<"milk", "_", "yield", "_", "drop">>
    /\ feature_out.value.delta = -18000

(***************************************************************************)
(* Properties of generate_alert (specification SpecAlert).                 *)
(***************************************************************************)
AlertDone == pc = "done"
\* the backend call failed: it raised, answered outside 2xx, or its body
\* was not a JSON object with a string under "response"
BackendFailed ==
    \/ backend.kind \in {"ConnectError", "TimeoutException", "RuntimeError"}
    \/ /\ backend.kind = "response"
       /\ \/ backend.status < 200 \/ backend.status > 299
          \/ backend.body.shape # "object"
          \/ "response" \notin backend.body.keys
          \/ backend.body.response.type # "str"
\* t occurs in text as a run of consecutive tokens
Occurs(t, text) ==
    \E k \in 0..(Len(text) - Len(t)) : SubSeq(text, k + 1, k + Len(t)) = t
\* the feature name with every "_" written as a space
Spaced(name) == [k \in 1..Len(name) |-> IF name[k] = "_" THEN " " ELSE name[k]]

\* C1 (as claimed): generate_alert returns a non-empty string and does not
\* raise, whatever the backend did.
C1_AlertNonEmptyNeverRaises ==
    AlertDone => alert_out.exc = "none" /\ Len(alert_out.value) > 0

\* C2: after any failure of the backend call the returned text is the
\* template sentence: "Check #<cow>: <feature, spaced> detected, shared
\* space with #<top_edge.to>. Inspect immediately.", with no "_" left in it.
C2_FailureGivesTemplate ==
    (AlertDone /\ BackendFailed) =>
        /\ alert_out.exc = "none"
        /\ alert_out.value =
              <<"Check #">> \o IntStr(xai_json.cow_id) \o <<": ">>
              \o Spaced(xai_json.top_feature)
              \o <<" detected, shared space with #">>
              \o IntStr(xai_json.top_edge.to) \o <<".", " ", "Inspect immediately.">>
        /\ Occurs(IntStr(xai_json.cow_id), alert_out.value)
        /\ Occurs(IntStr(xai_json.top_edge.to), alert_out.value)
        /\ \A k \in 1..Len(alert_out.value) : alert_out.value[k] # "_"
        /\ alert_out.value[Len(alert_out.value)] = "Inspect immediately."

\* C2 witness: a 200 answer whose JSON object has no "response" key, for a
\* cow whose neighbor differs from it and whose feature name has separators.
C2_Witness ==
    /\ AlertDone /\ backend.kind = "response" /\ backend.status = 200
    /\ backend.body.shape = "object" /\ "response" \notin backend.body.keys
    /\ xai_json.cow_id = 47 /\ xai_json.top_edge.to = 31
    /\ xai_json.top_feature = <<"milk", "_", "yield", "_", "drop">>
    /\ alert_out.value =
          <<"Check #", "4", "7", ": ", "milk", " ", "yield", " ", "drop",
            " detected, shared space with #", "3", "1", ".", " ",
            "Inspect immediately.">>

(***************************************************************************)
(* Properties of the risk statuses (specification SpecHerd).               *)
(***************************************************************************)
\* status st is the one the thresholds give score s
Classified(s, st) ==
    \/ s > 70000 /\ st = "alert"
    \/ s >= 40000 /\ s <= 70000 /\ st = "watch"
    \/ s < 40000 /\ st = "ok"
Rank(st) == CASE st = "ok" -> 0 [] st = "watch" -> 1 [] st = "alert" -> 2
\* scores around both thresholds and at the ends of [0, 1]
ScoreSamples == {0, 3000, 39999, 40000, 40001, 55000, 69999, 70000, 70001, 100000}
Statuses3 == {"ok", "watch", "alert"}

\* C9: the status of a score is "alert" above 0.70, "watch" from 0.40 to 0.70
\* (both ends included) and "ok" below 0.40: one status per score, rising
\* with the score; and the record of every cow of the generated herd, the
\* overridden ones included, as built and as served by GET /herd, carries
\* the status of its risk score.
C9_StatusFollowsScore ==
    /\ pc = "start" =>
          /\ \A s \in ScoreSamples :
                /\ Classified(s, risk_status(s))
                /\ Cardinality({st \in Statuses3 : Classified(s, st)}) = 1
          /\ \A s, t \in ScoreSamples :
                s <= t => Rank(risk_status(s)) <= Rank(risk_status(t))
          /\ risk_status(70000) = "watch" /\ risk_status(40000) = "watch"
    /\ pc \in {"built", "done"} =>
          /\ cow.id = cid
          /\ Classified(cow.risk_score, cow.status)
          /\ cow.status = risk_status(cow.risk_score)
    /\ herd_response.code = 200 =>
          /\ Classified(herd_response.cow.risk_score, herd_response.cow.status)
          /\ herd_response.cow = cow

\* C9 witness: cow 9, a watch cow whose generated score was replaced by the
\* hand-crafted 0.41, served by GET /herd in mock mode as "watch".
C9_Witness ==
    /\ pc = "done" /\ USE_MOCK /\ cid = 9
    /\ herd_response.code = 200
    /\ herd_response.cow.risk_score = 41000
    /\ herd_response.cow.status = "watch"

(***************************************************************************)
(* Properties of build_xai_json (specification SpecXai).                   *)
(***************************************************************************)
XaiDone == pc = "done"
RequiredKeys == {"cow_id", "risk_score", "top_edge", "top_feature", "feature_delta"}
CauseKeys == {"dominant_disease", "all_risks"}

\* C10 (as claimed): the record returned has the five required keys, plus
\* dominant cause and cause breakdown exactly when the explainer output
\* supplies them, and no alert text; cow_id and top_edge.from are the
\* requested ID.
C10_KeySetWithUpstreamCause ==
    (XaiDone /\ xai_out.exc = "none") =>
        /\ DOMAIN xai_out.value =
              RequiredKeys \cup (CauseKeys \cap DOMAIN explainer_output)
        /\ "alert_text" \notin DOMAIN xai_out.value
        /\ xai_out.value.cow_id = cow_id
        /\ xai_out.value.top_edge.from = cow_id

(***************************************************************************)
(* Properties of explanation requests (specification SpecExplain).         *)
(***************************************************************************)
\* explain_cow has returned a value to request r
Returned(r) == reqs[r].pc = "done" /\ reqs[r].out.exc = "none"
\* request r ran explain_cow's pipeline (not the mock table)
RealPath(r) == ~USE_MOCK /\ ml_ready
\* the backend call of request r failed
RequestFailed(r) == reqs[r].backend # Pending /\ ExceptionOf(reqs[r].backend) # "none"
AlertKeys == RequiredKeys \cup {"alert_text"}

\* C11: an Alert is never partially built.  Every value explain_cow
\* returns, with generated text, with the fallback text or from the mock
\* table, holds alert_text together with every Structured Explanation
\* field, and so does every 200 answer of the route; on the real path those
\* fields are the ones build_xai_json produced and the text is the one
\* generate_alert returned.  Before explain_cow returns nothing of it is
\* visible.
C11_AlertNeverPartial ==
    \A r \in DOMAIN reqs :
        /\ Returned(r) =>
              /\ AlertKeys \subseteq DOMAIN reqs[r].out.value
              /\ RealPath(r) =>
                    /\ \A k \in RequiredKeys : reqs[r].out.value[k] = reqs[r].xai[k]
                    /\ reqs[r].out.value.alert_text
                          = finish_alert(reqs[r].xai, reqs[r].backend).out.value
                    /\ DOMAIN reqs[r].out.value = DOMAIN reqs[r].xai \cup {"alert_text"}
        /\ reqs[r].http.code = 200 => AlertKeys \subseteq DOMAIN reqs[r].http.body
        /\ reqs[r].pc # "done" => reqs[r].out = NoOut /\ reqs[r].http = NoHttp

\* C11 witness: on the real path request 1 got the fallback text and
\* request 2 a generated one, both for #47 whose heaviest tie is #31.
C11_Witness ==
    /\ RealPath(1) /\ Returned(1) /\ Returned(2)
    /\ RequestFailed(1) /\ ~RequestFailed(2)
    /\ reqs[1].out.value.cow_id = 47 /\ reqs[1].out.value.top_edge = Edge(47, 31, 91000)
    /\ reqs[1].out.value.alert_text[Len(reqs[1].out.value.alert_text)] = "Inspect immediately."
    /\ reqs[2].out.value.alert_text = <<"Isolate", " ", "#47", " ", "now.">>
    /\ reqs[2].out.value.risk_score = 85120

\* the requested ID is in neither the mock table (mock mode) nor the
\* inference result (real path)
Absent(r) ==
    \/ USE_MOCK /\ reqs[r].cow_id \notin DOMAIN MOCK_EXPLAIN
    \/ /\ RealPath(r)
       /\ \A k \in 1..Len(inference.cows) : inference.cows[k].id # reqs[r].cow_id

\* C12 (as claimed): in every mode, mock mode included, a request for an ID
\* that is absent ends as an explicit not-found failure: explain_cow raises
\* ValueError, the route answers 404, and no explanation is returned in its
\* place.
C12_AbsentIdIsNotFound ==
    \A r \in DOMAIN reqs :
        (reqs[r].pc = "done" /\ Absent(r)) =>
            /\ reqs[r].entry = "direct" => reqs[r].out.exc = "ValueError"
            /\ reqs[r].entry = "route" => reqs[r].http.code = 404
            /\ reqs[r].out.exc # "none"

\* C13: a request performs at most one outbound call and never retries.
\* While it is suspended its only POST is outstanding; once the backend has
\* answered or raised, the request is over with that one POST and one log
\* line, and after a failure what it returns carries the fallback text; a
\* request that ended without the backend acting issued no POST.
C13_AtMostOneCallNoRetry ==
    \A r \in DOMAIN reqs :
        /\ reqs[r].calls <= 1
        /\ reqs[r].pc = "start" => reqs[r].calls = 0
        /\ reqs[r].pc = "awaiting" => reqs[r].calls = 1 /\ reqs[r].backend = Pending
        /\ reqs[r].backend # Pending =>
              /\ reqs[r].pc = "done" /\ reqs[r].calls = 1 /\ Len(reqs[r].log) = 1
              /\ RequestFailed(r) =>
                    reqs[r].out = Return(with_alert_text(reqs[r].xai,
                                                         fallback_alert(reqs[r].xai)))
        /\ (reqs[r].pc = "done" /\ reqs[r].backend = Pending) => reqs[r].calls = 0

\* C13 witness: the one POST of request 1 timed out and the request ended
\* with the fallback text, one call made.
C13_Witness ==
    /\ reqs[1].pc = "done" /\ reqs[1].backend.kind = "TimeoutException"
    /\ reqs[1].calls = 1 /\ reqs[1].out.exc = "none"
    /\ reqs[1].out.value.alert_text = fallback_alert(reqs[1].xai)
    /\ reqs[1].log = <<[level |-> "warning", what |-> "TimeoutException"]>>

\* C14: the class of failure is invisible in what is returned.  Two
\* requests that built the same Structured Explanation and whose backend
\* calls both failed, in whatever way, are returned the same value (and the
\* route answers them alike); the class shows only in the log line.
C14_FailureClassInvisible ==
    \A r1, r2 \in DOMAIN reqs :
        ( /\ Returned(r1) /\ Returned(r2)
          /\ RequestFailed(r1) /\ RequestFailed(r2)
          /\ reqs[r1].xai = reqs[r2].xai ) =>
            /\ reqs[r1].out = reqs[r2].out
            /\ reqs[r1].entry = reqs[r2].entry => reqs[r1].http = reqs[r2].http
            /\ reqs[r1].log[1].what = ExceptionOf(reqs[r1].backend)

\* C14 witness: for the same explanation of #47, request 1 failed with a
\* refused connection and request 2 with a 500 answer; both were returned
\* the same text and their log lines differ.
C14_Witness ==
    /\ Returned(1) /\ Returned(2)
    /\ reqs[1].backend.kind = "ConnectError"
    /\ reqs[2].backend.kind = "response" /\ reqs[2].backend.status = 500
    /\ reqs[1].xai = reqs[2].xai /\ reqs[1].xai.cow_id = 47
    /\ reqs[1].xai.top_edge.to = 31
    /\ reqs[1].out.value.alert_text = reqs[2].out.value.alert_text
    /\ reqs[1].log = <<[level |-> "warning", what |-> "ConnectError"]>>
    /\ reqs[2].log = <<[level |-> "error", what |-> "HTTPStatusError"]>>

\* the collaborators that compute an attribution or an alert
Attribution == {"get_gnn_explainer_output", "build_xai_json", "generate_alert"}
\* the score run_inference gave the cow of request r
ScoreOf(r) == cow_data_of(inference, reqs[r].cow_id).list[1].risk_score

\* C15 (as claimed): explain_cow calls get_gnn_explainer_output,
\* build_xai_json or generate_alert only for a cow whose score classifies
\* as alert (above 0.70), never for a watch or ok cow.
C15_AttributionOnlyForAlert ==
    \A r \in DOMAIN reqs :
        \A k \in 1..Len(reqs[r].called) :
            reqs[r].called[k] \in Attribution =>
                /\ ~cow_data_of(inference, reqs[r].cow_id).isNone
                /\ ScoreOf(r) > 70000
                /\ risk_status(ScoreOf(r)) = "alert"

(***************************************************************************)
(* Rounding in build_xai_json (specification SpecXai).                     *)
(***************************************************************************)
\* x is a multiple of 0.0001 (10 units of 0.00001)
FourPlaces(x) == x % 10 = 0

\* C16: in the record build_xai_json returns, risk_score, top_edge.weight
\* and feature_delta are multiples of 0.0001 within 0.00005 of the value
\* they were rounded from.
C16_FourDecimalPlaces ==
    (XaiDone /\ xai_out.exc = "none") =>
        /\ FourPlaces(xai_out.value.risk_score)
        /\ FourPlaces(xai_out.value.top_edge.weight)
        /\ FourPlaces(xai_out.value.feature_delta)
        /\ Abs(xai_out.value.risk_score - risk_score) <= 5

\* C16 witness: 0.75679 came back as 0.7568, the heaviest tie 0.90006 as
\* 0.9001 and the delta -0.18004 as -0.18.
C16_Witness ==
    /\ XaiDone /\ xai_out.exc = "none"
    /\ risk_score = 75679 /\ xai_out.value.risk_score = 75680
    /\ xai_out.value.top_edge.weight = 90010
    /\ xai_out.value.feature_delta = -18000

\* C17: rounding is idempotent.  Rounding any score, tie weight or delta
\* given to build_xai_json a second time changes nothing, and rounding what
\* build_xai_json returned leaves it as it is.
C17_RoundingIdempotent ==
    /\ round4(round4(risk_score)) = round4(risk_score)
    /\ \A k \in 1..Len(explainer_output.edge_mask) :
          round4(round4(explainer_output.edge_mask[k])) = round4(explainer_output.edge_mask[k])
    /\ "feature_delta" \in DOMAIN explainer_output =>
          \A k \in 1..Len(explainer_output.feature_delta) :
              round4(round4(explainer_output.feature_delta[k]))
                  = round4(explainer_output.feature_delta[k])
    /\ (XaiDone /\ xai_out.exc = "none") =>
          /\ round4(xai_out.value.risk_score) = xai_out.value.risk_score
          /\ round4(xai_out.value.top_edge.weight) = xai_out.value.top_edge.weight
          /\ round4(xai_out.value.feature_delta) = xai_out.value.feature_delta

\* C17 witness: 0.12346 is the heaviest tie of the cow explained; it came
\* back as 0.1235, which rounds to itself.
C17_Witness ==
    /\ XaiDone /\ xai_out.exc = "none"
    /\ explainer_output.edge_mask = <<12346>>
    /\ xai_out.value.top_edge.weight = 12350
    /\ round4(12350) = 12350 /\ round4(12346) = 12350
    /\ risk_score = 75679

(***************************************************************************)
(* Records of ok cows (specification SpecHerd).                            *)
(***************************************************************************)
\* the record carries no top feature, no dominant cause and no breakdown
NoCause(rec) ==
    rec.top_feature.isNone /\ rec.dominant_disease.isNone /\ rec.all_risks.isNone

\* C18: every cow that GET /herd serves with status "ok" has a score below
\* the watch threshold and null top_feature, dominant cause and cause
\* breakdown; so has its record at every stage of _build_mock.
C18_OkRecordsCarryNoCause ==
    /\ (pc \in {"appended", "built"} /\ cow.status = "ok") =>
          NoCause(cow) /\ cow.risk_score < 40000
    /\ (pc = "done" /\ herd_response.code = 200 /\ herd_response.cow.status = "ok") =>
          /\ NoCause(herd_response.cow)
          /\ herd_response.cow.risk_score < 40000
          /\ herd_response.cow.id \notin alert_ids \cup watch_ids

\* C18 witness: GET /herd served cow #60 as ok at the top of the ok range
\* (0.34) with its three fields null.
C18_Witness ==
    /\ pc = "done" /\ herd_response.code = 200
    /\ herd_response.cow.id = 60 /\ herd_response.cow.status = "ok"
    /\ herd_response.cow.risk_score = 34000
    /\ herd_response.cow.top_feature = Null
    /\ herd_response.cow.dominant_disease = Null
    /\ herd_response.cow.all_risks = Null

(***************************************************************************)
(* Properties of /api/ingest (specification SpecIngest).                   *)
(***************************************************************************)
\* the item carries its own cow_id and at least one metric
ItemWithMetric(item) ==
    /\ "cow_id" \in DOMAIN item /\ item["cow_id"].v \in {"47", "31"}
    /\ \/ "milk_yield_kg" \in DOMAIN item /\ item["milk_yield_kg"].t \in {"int", "float"}
       \/ "pen_id" \in DOMAIN item /\ item["pen_id"].t = "str" /\ item["pen_id"].v # ""
       \/ /\ "health_event" \in DOMAIN item /\ item["health_event"].t = "str"
          /\ item["health_event"].v \notin {"", "none"}
\* a JSON body of the documented batch form: "records" is a non-empty list
\* of such items (other keys may or may not be there)
DocumentedBatch(req) ==
    /\ req.ct = "json" /\ req.json.shape = "dict"
    /\ "records" \in DOMAIN req.json.body
    /\ req.json.body["records"].t = "list"
    /\ Len(req.json.body["records"].items) > 0
    /\ \A k \in 1..Len(req.json.body["records"].items) :
          ItemWithMetric(req.json.body["records"].items[k])
IdOf(item) == IF item["cow_id"].v = "47" THEN 47 ELSE 31

\* C19 (as claimed): every accepted POST reports as rows_ingested the
\* number of records it normalized, and a POST whose body has the
\* documented batch form is accepted: the answer is 200, there is at least
\* one record per item, and the records follow the order of the items.
C19_DocumentedBatchAccepted ==
    /\ (ingest_response.method = "POST" /\ ingest_response.code = 200) =>
          /\ ingest_response.rows_ingested = Len(ingest_response.records)
          /\ Len(ingest_response.records) > 0
    /\ (ingest_response.method = "POST" /\ DocumentedBatch(ingest_response.request)) =>
          LET items == ingest_response.request.json.body["records"].items
              recs == ingest_response.records
          IN  /\ ingest_response.code = 200
              /\ Len(recs) >= Len(items)
              /\ recs[1].cow_id = IdOf(items[1])
              /\ recs[Len(recs)].cow_id = IdOf(items[Len(items)])

\* a is a prefix of b
IsPrefix(a, b) == Len(a) <= Len(b) /\ SubSeq(b, 1, Len(a)) = a

\* C20: the store is empty at start, and across every request its earlier
\* contents are a prefix of its later contents; a GET leaves it as it was
\* and reports it whole, with rows_ingested the number of records the
\* successful POSTs appended so far; a POST that is not answered 200
\* appends nothing.
C20_StoreAppendOnly ==
    /\ _records = <<>>
    /\ [][ /\ IsPrefix(_records, _records')
           /\ ingest_response'.method = "GET" =>
                 /\ _records' = _records
                 /\ ingest_response'.code = 200
                 /\ ingest_response'.rows_ingested = appended'
                 /\ ingest_response'.records = _records'
           /\ Len(_records') = appended'
           /\ ingest_response'.code # 200 => _records' = _records
         ]_vars

\* C20 witness: a webhook record and then the three records of one POST were
\* appended, and a GET reported all four.
C20_Witness ==
    /\ ingest_response.method = "GET" /\ ingest_response.rows_ingested = 4
    /\ appended = 4 /\ Len(_records) = 4
    /\ _records[1] = Rec(47, "2026-03-01", "ear_temp_c", JFloat("39.1"))
    /\ _records[2] = Rec(31, "2026-03-01", "pen_id", JStr("B"))
    /\ _records[4].metric = "health_event_type"
    /\ ingest_response.records = _records

(***************************************************************************)
(* Concurrent explanation requests (specification SpecExplain).            *)
(***************************************************************************)
\* the Structured Explanations request r can build from its own cow, the
\* score run_inference gave that cow, and what get_gnn_explainer_output
\* can return for that cow
OwnExplanations(r) ==
    LET ids == [k \in 1..Len(inference.cows) |-> inference.cows[k].id]
        built == {build_xai_json(reqs[r].cow_id, ScoreOf(r), eo, ids) :
                      eo \in ExplainerChoices(reqs[r].cow_id)}
    IN  {x.value : x \in {y \in built : y.exc = "none"}}

\* what request r holds and returns is a function of its own cow, its own
\* explainer output and its own backend outcome
OwnResponse(r) ==
    /\ (RealPath(r) /\ reqs[r].xai # NoXai) =>
          /\ reqs[r].xai \in OwnExplanations(r)
          /\ reqs[r].xai.cow_id = reqs[r].cow_id
          /\ reqs[r].prompt = build_user_prompt(reqs[r].xai)
    /\ (RealPath(r) /\ Returned(r)) =>
          /\ reqs[r].out.value.cow_id = reqs[r].cow_id
          /\ reqs[r].out.value.risk_score = round4(ScoreOf(r))
          /\ reqs[r].out.value.top_edge = reqs[r].xai.top_edge
          /\ reqs[r].out.value.top_edge.from = reqs[r].cow_id
          /\ reqs[r].out.value.top_feature = reqs[r].xai.top_feature
          /\ reqs[r].out.value.alert_text
                = finish_alert(reqs[r].xai, reqs[r].backend).out.value
          /\ reqs[r].entry = "route" =>
                reqs[r].http = [code |-> 200, body |-> reqs[r].out.value]
    /\ (USE_MOCK /\ Returned(r)) =>
          reqs[r].out.value = mock_explain_get(MOCK_EXPLAIN, reqs[r].cow_id)

\* a step of the event loop touches the request it runs and nothing else:
\* the other request, the mock table and the inference result stay as they
\* were, and a request that has been answered is never touched again
OwnStep ==
    /\ \A r \in DOMAIN reqs :
          reqs'[r] # reqs[r] =>
              /\ schedule' = Append(schedule, r)
              /\ reqs[r].pc # "done"
    /\ MOCK_EXPLAIN' = MOCK_EXPLAIN
    /\ inference' = inference
    /\ ml_ready' = ml_ready

\* C21: concurrent explanation requests that interleave at the awaited
\* backend call do not affect one another.  In every interleaving each
\* request's Structured Explanation, prompt and response (cow ID, risk
\* score, top edge, top feature, alert text) are derived from its own cow,
\* its own explainer output and its own backend outcome, and every step
\* changes the request it runs and no other state.
C21_RequestsDoNotInterfere ==
    /\ [](\A r \in DOMAIN reqs : OwnResponse(r))
    /\ [][OwnStep]_vars

\* C21 witness: request 1 (for #47) suspended at its POST, request 2 (for
\* #9) started and was answered while request 1 was suspended, then request
\* 1 resumed; both failed over to the template, each naming its own cow
\* and its own neighbour.
C21_Witness ==
    /\ schedule = <<1, 2, 2, 1>>
    /\ RealPath(1) /\ Returned(1) /\ Returned(2)
    /\ reqs[1].cow_id = 47 /\ reqs[2].cow_id = 9
    /\ reqs[1].out.value.cow_id = 47 /\ reqs[2].out.value.cow_id = 9
    /\ reqs[1].out.value.top_edge = Edge(47, 31, 91000)
    /\ reqs[2].out.value.top_edge = Edge(9, 47, 64010)
    /\ reqs[1].out.value.risk_score # reqs[2].out.value.risk_score
    /\ RequestFailed(1) /\ RequestFailed(2)
    /\ reqs[1].out.value.alert_text = fallback_alert(reqs[1].xai)
    /\ reqs[2].out.value.alert_text = fallback_alert(reqs[2].xai)
    /\ reqs[1].out.value.alert_text # reqs[2].out.value.alert_text

(***************************************************************************)
(* Anomalies in the attribution path (specification SpecEdge).             *)
(***************************************************************************)
\* C22 (as claimed): whatever the edge list, the weight list and the
\* index-to-ID mapping, an endpoint index outside the mapping and lists of
\* different lengths included, extract_top_edge never raises: it returns
\* a {from, to, weight} record whose from is the target.
C22_TopEdgeNeverRaises ==
    EdgeDone =>
        /\ edge_out.exc = "none"
        /\ DOMAIN edge_out.value = {"from", "to", "weight"}
        /\ edge_out.value.from = target_cow_id

(***************************************************************************)
(* POSTs to /api/ingest in flight together (specification                  *)
(* SpecConcurrentIngest).                                                  *)
(***************************************************************************)
\* POST p has been answered / has been answered 200
Answered(p) == posts[p].pc = "done"
Ingested(p) == Answered(p) /\ posts[p].code = 200
\* the rows the answered POSTs report
RECURSIVE RowsReported(_)
RowsReported(P) ==
    IF P = {} THEN 0
    ELSE LET p == CHOOSE x \in P : TRUE
         IN  (IF Ingested(p) THEN posts[p].rows_ingested ELSE 0)
             + RowsReported(P \ {p})
\* the records of POST p sit in the store as one block, in the order the
\* normalizer produced them, from where the store ended when p stored them
OneBlock(p) ==
    /\ posts[p].rows_ingested = Len(posts[p].records)
    /\ posts[p].rows_ingested > 0
    /\ posts[p].records = parse_request(posts[p].request).value
    /\ posts[p].at + posts[p].rows_ingested <= Len(_records)
    /\ SubSeq(_records, posts[p].at + 1, posts[p].at + posts[p].rows_ingested)
          = posts[p].records
\* a step that answers POST p leaves the store alone if p is rejected and
\* appends exactly the reported rows if p succeeds; any other step leaves
\* the store alone
StoreStep ==
    /\ \A p \in DOMAIN posts :
          (posts[p].pc # "done" /\ posts'[p].pc = "done") =>
              /\ posts'[p].code # 200 =>
                    /\ _records' = _records
                    /\ posts'[p].code \in {400, 422, 500}
              /\ posts'[p].code = 200 =>
                    /\ _records' = _records \o posts'[p].records
                    /\ Len(_records') = Len(_records) + posts'[p].rows_ingested
    /\ (\A p \in DOMAIN posts : posts'[p].pc = "done" => posts[p].pc = "done")
          => _records' = _records

\* C23: a POST /api/ingest that is rejected leaves the record store
\* unchanged, and a successful one grows the store by exactly the
\* rows_ingested it reports, its records forming one contiguous block in
\* normalized order, also when several POSTs are in flight together: the
\* blocks of the successful POSTs do not overlap and make up the store.
C23_RejectedLeavesStoreBlocksContiguous ==
    /\ [](/\ \A p \in DOMAIN posts : Ingested(p) => OneBlock(p)
          /\ \A p, q \in DOMAIN posts :
                (p # q /\ Ingested(p) /\ Ingested(q)) =>
                    \/ posts[p].at + posts[p].rows_ingested <= posts[q].at
                    \/ posts[q].at + posts[q].rows_ingested <= posts[p].at
          /\ Len(_records) = RowsReported(DOMAIN posts)
          /\ appended = Len(_records))
    /\ [][StoreStep]_vars

\* C23 witness: POST 1 (a batch of four records) was suspended while the
\* store was empty; while it was in flight POST 3 (an upload of two rows)
\* stored its block and POST 2 was rejected with 422; POST 1's four records
\* then landed behind POST 3's as one block.
C23_Witness ==
    /\ Ingested(1) /\ Ingested(3) /\ Answered(2) /\ posts[2].code = 422
    /\ posts[1].seen = 0 /\ posts[2].seen = 0 /\ posts[3].seen = 0
    /\ posts[1].rows_ingested = 4 /\ posts[3].rows_ingested = 2
    /\ posts[3].at = 0 /\ posts[1].at = 2
    /\ _records = posts[3].records \o posts[1].records
    /\ posts[3].request.ct = "multipart"

====
